---- MODULE Spec2Model ----
(***************************************************************************)
(* Directive Resolution Pipeline of Backend/app/gemini_analyzer.py:        *)
(* FoodAnalyzer.strategize_swarm and the pure functions it calls.          *)
(*                                                                         *)
(* Representation.  A Python str is a record [ws, w]: w is the text with   *)
(* surrounding whitespace removed, ws says whether the str has whitespace  *)
(* at both ends.  A candidate text is a sequence of lexical tokens         *)
(* [c, k, v]: punctuation ("{", "}", ",", "fence", "nl", "sp"), a prose    *)
(* word ("word"), a quoted key followed by its colon ("key", k) or a       *)
(* value literal ("val", v).  A JSON value is a record [t, s, n, o].       *)
(***************************************************************************)
EXTENDS Integers, Sequences, FiniteSets, TLC

----------------------------------------------------------------------------
(* Python strings *)

Str(ws, w) == [ws |-> ws, w |-> w]
S(w) == Str(FALSE, w)
EmptyStr == S("")

\* bool(s): a str is truthy unless it is ""
Truthy(s) == s.w # "" \/ s.ws

\* str.strip()
Strip(s) == [s EXCEPT !.ws = FALSE]

\* str.lower() on the words of the vocabulary that hold upper-case letters
LowerTable ==
    ("HOLD" :> "hold") @@ ("Reinforce" :> "reinforce") @@ ("FEINT" :> "feint")
    @@ ("Zone_Alpha" :> "zone_alpha") @@ ("Bravo" :> "bravo")
    @@ ("True" :> "true") @@ ("False" :> "false")
    @@ ("Gemini-2.5-Pro" :> "gemini-2.5-pro") @@ ("GEMINI-3-FLASH" :> "gemini-3-flash")
    @@ ("targetZone" :> "targetzone") @@ ("fromZone" :> "fromzone")
    @@ ("toZone" :> "tozone") @@ ("decoyZone" :> "decoyzone")
    @@ ("realTargetZone" :> "realtargetzone") @@ ("squadSize" :> "squadsize")
    @@ ("decoySize" :> "decoysize") @@ ("realSize" :> "realsize")
    @@ ("Order" :> "order") @@ ("ORDER" :> "order") @@ ("Directive" :> "directive")
    @@ ("Count" :> "count") @@ ("Reasoning" :> "reasoning")
    @@ ("MAX_TOKENS" :> "max_tokens") @@ ("STOP" :> "stop")
    @@ ("FinishReason.MAX_TOKENS" :> "finishreason.max_tokens")

LowerWord(w) == IF w \in DOMAIN LowerTable THEN LowerTable[w] ELSE w
Lower(s) == [s EXCEPT !.w = LowerWord(s.w)]

----------------------------------------------------------------------------
(* JSON values and lexical tokens *)

JV(t, s, n) == [t |-> t, s |-> s, n |-> n, o |-> <<>>]
NullV == JV("null", EmptyStr, 0)
StrV(w) == JV("str", S(w), 0)
WsStrV(w) == JV("str", Str(TRUE, w), 0)
IntV(n) == JV("int", EmptyStr, n)
\* a float with integer part n and a non-zero fraction
FloatV(n) == JV("float", EmptyStr, n)
BoolV(b) == JV("bool", EmptyStr, IF b THEN 1 ELSE 0)
\* float("inf"), written Infinity or 1e999 in the text
InfV(w) == JV("inf", S(w), 0)
NanV == JV("nan", S("NaN"), 0)
ArrV == JV("arr", EmptyStr, 0)
ObjV(pairs) == [t |-> "obj", s |-> EmptyStr, n |-> 0, o |-> pairs]
\* an unquoted word where a value is expected: not JSON
BareV(w) == JV("bare", S(w), 0)

\* the literals json.loads accepts (Infinity and NaN included)
JsonLiteralTypes == {"str", "int", "float", "bool", "null", "inf", "nan", "arr"}

Tok(c) == [c |-> c, k |-> "", v |-> NullV]
Key(k) == [c |-> "key", k |-> k, v |-> NullV]
Val(v) == [c |-> "val", k |-> "", v |-> v]
LB == Tok("{")
RB == Tok("}")
CM == Tok(",")
FENCE == Tok("fence")
NL == Tok("nl")
SP == Tok("sp")
WORD == Tok("word")

IsWs(tok) == tok.c \in {"sp", "nl"}

RECURSIVE SkipWs(_, _)
SkipWs(toks, i) ==
    IF i <= Len(toks) /\ IsWs(toks[i]) THEN SkipWs(toks, i + 1) ELSE i

RECURSIVE SkipWsBack(_, _)
SkipWsBack(toks, i) ==
    IF i >= 1 /\ IsWs(toks[i]) THEN SkipWsBack(toks, i - 1) ELSE i

\* str.strip() of a text
StripText(toks) == SubSeq(toks, SkipWs(toks, 1), SkipWsBack(toks, Len(toks)))

\* text.find(c) from position i on: the first index or 0
RECURSIVE FindTok(_, _, _)
FindTok(toks, c, i) ==
    IF i > Len(toks) THEN 0
    ELSE IF toks[i].c = c THEN i
    ELSE FindTok(toks, c, i + 1)

\* text.rfind(c): the last index or 0
RECURSIVE RFindTok(_, _, _)
RFindTok(toks, c, i) ==
    IF i < 1 THEN 0
    ELSE IF toks[i].c = c THEN i
    ELSE RFindTok(toks, c, i - 1)

----------------------------------------------------------------------------
(* _extract_json_payload *)

NoPayload == [found |-> FALSE, text |-> <<>>]
Payload(t) == [found |-> TRUE, text |-> t]

\* the fence handling of lines 559-565
StripFences(text) ==
    IF Len(text) >= 1 /\ text[1].c = "fence"
    THEN LET first_newline == FindTok(text, "nl", 1)
             t1 == IF first_newline >= 1
                   THEN SubSeq(text, first_newline + 1, Len(text))
                   ELSE text
             fence_end == RFindTok(t1, "fence", Len(t1))
         IN IF fence_end >= 1
            THEN StripText(SubSeq(t1, 1, fence_end - 1))
            ELSE t1
    ELSE text

\* variant that never finds a balanced span
ScanNone(text, idx, depth) == 0
\* the depth scan of lines 576-586: the index closing the first balanced span, or 0
RECURSIVE ScanBalanced(_, _, _)
ScanBalanced(text, idx, depth) ==
    IF idx > Len(text) THEN 0
    ELSE IF text[idx].c = "{" THEN ScanBalanced(text, idx + 1, depth + 1)
    ELSE IF text[idx].c = "}"
         THEN IF depth - 1 = 0 THEN idx ELSE ScanBalanced(text, idx + 1, depth - 1)
    ELSE ScanBalanced(text, idx + 1, depth)

ExtractJsonPayload(raw_text) ==
    IF raw_text = <<>> THEN NoPayload
    ELSE LET text == StripFences(StripText(raw_text)) IN
         IF Len(text) >= 1 /\ text[1].c = "{" /\ text[Len(text)].c = "}"
         THEN Payload(text)
         ELSE LET start == FindTok(text, "{", 1) IN
              IF start = 0 THEN NoPayload
              ELSE LET last == ScanBalanced(text, start, 0) IN
                   IF last = 0 THEN NoPayload
                   ELSE Payload(SubSeq(text, start, last))

----------------------------------------------------------------------------
(* json.loads on a located payload *)

ParseFail == [ok |-> FALSE, v |-> NullV, next |-> 0]

RECURSIVE ParseValue(_, _)
RECURSIVE ParseMembers(_, _, _)
ParseValue(toks, i0) ==
    LET i == SkipWs(toks, i0) IN
    IF i > Len(toks) THEN ParseFail
    ELSE IF toks[i].c = "val"
         THEN IF toks[i].v.t \in JsonLiteralTypes
              THEN [ok |-> TRUE, v |-> toks[i].v, next |-> i + 1]
              ELSE ParseFail
    ELSE IF toks[i].c = "{"
         THEN LET j == SkipWs(toks, i + 1) IN
              IF j <= Len(toks) /\ toks[j].c = "}"
              THEN [ok |-> TRUE, v |-> ObjV(<<>>), next |-> j + 1]
              ELSE ParseMembers(toks, j, <<>>)
    ELSE ParseFail

ParseMembers(toks, i0, acc) ==
    LET i == SkipWs(toks, i0) IN
    IF i > Len(toks) \/ toks[i].c # "key" THEN ParseFail
    ELSE LET r == ParseValue(toks, i + 1) IN
         IF ~r.ok THEN ParseFail
         ELSE LET acc2 == Append(acc, [k |-> toks[i].k, v |-> r.v])
                  j == SkipWs(toks, r.next)
              IN IF j > Len(toks) THEN ParseFail
                 ELSE IF toks[j].c = "}"
                      THEN [ok |-> TRUE, v |-> ObjV(acc2), next |-> j + 1]
                 ELSE IF toks[j].c = ","
                      THEN ParseMembers(toks, j + 1, acc2)
                 ELSE ParseFail

\* json.loads(payload): one value and nothing but whitespace after it;
\* ok = FALSE stands for json.JSONDecodeError
JsonLoads(payload) ==
    LET r == ParseValue(payload, 1) IN
    IF r.ok /\ SkipWs(payload, r.next) > Len(payload)
    THEN [ok |-> TRUE, v |-> r.v]
    ELSE [ok |-> FALSE, v |-> NullV]

\* key in d
HasKey(pairs, key) == \E i \in 1..Len(pairs) : pairs[i].k = key

\* d.get(key): the last pair of that key decides, None (null) when absent
RECURSIVE GetFrom(_, _, _)
GetFrom(pairs, key, i) ==
    IF i < 1 THEN NullV
    ELSE IF pairs[i].k = key THEN pairs[i].v
    ELSE GetFrom(pairs, key, i - 1)

Get(pairs, key) == GetFrom(pairs, key, Len(pairs))

----------------------------------------------------------------------------
(* Directive helpers *)

DEFAULT_HOLD_REASONING ==
    S("Comms degraded. Holding sectors and observing target movement.")

Orders == {"reinforce", "redistribute", "recapture", "hold", "feint"}

\* the keys of a directive, in the insertion order of _build_hold_directive
DirectiveKeys ==
    << "order", "target_zone", "squad_size", "priority", "from_zone", "to_zone",
       "count", "decoy_zone", "decoy_size", "real_target_zone", "real_size",
       "reasoning" >>

IntKeys == {"squad_size", "count", "decoy_size", "real_size"}

\* str(value).strip(), "" for None
SafeStr(v) ==
    CASE v.t = "null" -> EmptyStr
      [] v.t = "str" -> Strip(v.s)
      [] v.t = "int" -> S(ToString(v.n))
      [] v.t = "float" -> S(ToString(v.n) \o ".5")
      [] v.t = "bool" -> IF v.n = 1 THEN S("True") ELSE S("False")
      [] v.t = "inf" -> S("inf")
      [] v.t = "nan" -> S("nan")
      [] v.t = "arr" -> S("[]")
      [] v.t = "obj" -> IF v.o = <<>> THEN S("{}") ELSE S("{...}")
      [] OTHER -> Strip(v.s)

\* variant that reads any other token as hold
NormalizeOrderAsHold(v) ==
    IF Lower(SafeStr(v)).w \in Orders THEN Lower(SafeStr(v)) ELSE S("hold")
NormalizeOrder(v) ==
    LET token == Lower(SafeStr(v)) IN
    IF token.w \in Orders THEN token ELSE S("invalid")

ZoneAlias ==
    ("zone_alpha" :> "alpha") @@ ("zone_bravo" :> "bravo")
    @@ ("zone_charlie" :> "charlie")

NormalizeZone(v) ==
    LET token == Lower(SafeStr(v)) IN
    IF token.w \in DOMAIN ZoneAlias THEN S(ZoneAlias[token.w]) ELSE token

\* int(str): the decimal words of the vocabulary; any other word is a ValueError
IntOfWord == ("0" :> 0) @@ ("1" :> 1) @@ ("2" :> 2) @@ ("3" :> 3) @@ ("7" :> 7)
             @@ ("-3" :> -3)

Max(a, b) == IF a >= b THEN a ELSE b
Min(a, b) == IF a <= b THEN a ELSE b

\* int(value) raises OverflowError, which _to_non_negative_int does not catch
IntRaises(v) == v.t = "inf"

\* int(value) where it returns; TypeError and ValueError give 0 below
IntDefined(v) ==
    \/ v.t \in {"int", "float", "bool"}
    \/ v.t = "str" /\ v.s.w \in DOMAIN IntOfWord

IntOf(v) == IF v.t = "str" THEN IntOfWord[v.s.w] ELSE v.n

\* variant without the max(0, ..) of line 958
ToNonNegativeIntLoose(v) == IF IntDefined(v) THEN IntOf(v) ELSE 0
\* _to_non_negative_int, for values on which int(value) does not raise OverflowError
ToNonNegativeInt(v) == IF IntDefined(v) THEN Max(0, IntOf(v)) ELSE 0

BuildHoldDirective(reasoning) ==
    [ order |-> S("hold"), target_zone |-> EmptyStr, squad_size |-> 0,
      priority |-> EmptyStr, from_zone |-> EmptyStr, to_zone |-> EmptyStr,
      count |-> 0, decoy_zone |-> EmptyStr, decoy_size |-> 0,
      real_target_zone |-> EmptyStr, real_size |-> 0,
      reasoning |-> IF Truthy(reasoning) THEN reasoning ELSE DEFAULT_HOLD_REASONING ]

\* json.dumps(data, separators=(",", ":")) of a directive dict
RECURSIVE DumpMembers(_, _)
DumpMembers(d, i) ==
    IF i > Len(DirectiveKeys) THEN <<>>
    ELSE LET k == DirectiveKeys[i]
             v == IF k \in IntKeys THEN IntV(d[k])
                  ELSE [t |-> "str", s |-> d[k], n |-> 0, o |-> <<>>]
         IN (IF i > 1 THEN <<CM>> ELSE <<>>) \o <<Key(k), Val(v)>>
            \o DumpMembers(d, i + 1)

\* variant writing json.dumps' default separators: a space after each comma
RECURSIVE SpaceAfterCommas(_, _)
SpaceAfterCommas(toks, i) ==
    IF i > Len(toks) THEN <<>>
    ELSE <<toks[i]>> \o (IF toks[i].c = "," THEN <<SP>> ELSE <<>>)
         \o SpaceAfterCommas(toks, i + 1)
ToJsonSpaced(d) == SpaceAfterCommas(<<LB>> \o DumpMembers(d, 1) \o <<RB>>, 1)
ToJson(d) == <<LB>> \o DumpMembers(d, 1) \o <<RB>>

HoldJson == ToJson(BuildHoldDirective(DEFAULT_HOLD_REASONING))

\* _is_actionable_directive on a directive dict
IsActionableDirective(d) ==
    LET order == Lower(Strip(d.order)).w IN
    IF order = "hold" THEN TRUE
    ELSE IF order \in {"reinforce", "recapture"}
         THEN Truthy(Strip(d.target_zone)) /\ Max(0, d.squad_size) > 0
    ELSE IF order = "redistribute"
         THEN /\ Truthy(Strip(d.from_zone))
              /\ Truthy(Strip(d.to_zone))
              /\ Strip(d.from_zone) # Strip(d.to_zone)
              /\ Max(0, d.count) > 0
    ELSE IF order = "feint"
         THEN /\ Truthy(Strip(d.decoy_zone))
              /\ Truthy(Strip(d.real_target_zone))
              /\ Strip(d.decoy_zone) # Strip(d.real_target_zone)
              /\ Max(0, d.decoy_size) > 0
              /\ Max(0, d.real_size) > 0
    ELSE FALSE

----------------------------------------------------------------------------
(* _coerce_directive *)

KnownKeys ==
    { "order", "directive", "reasoning", "target_zone", "squad_size", "priority",
      "from_zone", "to_zone", "count", "decoy_zone", "decoy_size",
      "real_target_zone", "real_size" }

\* result: none (the function returned None), raised (OverflowError) or d
CoerceNone == [kind |-> "none", d |-> BuildHoldDirective(EmptyStr)]
CoerceRaised == [kind |-> "raised", d |-> BuildHoldDirective(EmptyStr)]

\* variant that reads the fields from the enclosing object only
CoerceSourceFlat(parsed) == parsed.o
\* the dict the fields are read from, lines 843-853
CoerceSource(parsed) ==
    LET nested == Get(parsed.o, "directive") IN
    IF nested.t = "obj" THEN nested.o
    ELSE IF nested.t = "str" /\ ~HasKey(parsed.o, "order")
         THEN Append(parsed.o, [k |-> "order", v |-> nested])
    ELSE parsed.o

\* variant that always writes the default reasoning
CoerceReasoningDefault(parsed, source) == DEFAULT_HOLD_REASONING
CoerceReasoning(parsed, source) ==
    LET envelope_reasoning == SafeStr(Get(parsed.o, "reasoning"))
        reasoning == SafeStr(Get(source, "reasoning"))
        chosen == IF ~Truthy(reasoning) /\ Truthy(envelope_reasoning)
                  THEN envelope_reasoning ELSE reasoning
    IN IF Truthy(chosen) THEN chosen ELSE DEFAULT_HOLD_REASONING

CoerceDirective(parsed) ==
    IF parsed.t # "obj" THEN CoerceNone
    ELSE IF ~(\E key \in KnownKeys : HasKey(parsed.o, key)) THEN CoerceNone
    ELSE LET source == CoerceSource(parsed)
             order == NormalizeOrder(Get(source, "order"))
         IN IF order.w = "invalid" THEN CoerceNone
            ELSE IF \E k \in IntKeys : IntRaises(Get(source, k)) THEN CoerceRaised
            ELSE [ kind |-> "ok",
                   d |-> [ order |-> order,
                           target_zone |-> NormalizeZone(Get(source, "target_zone")),
                           squad_size |-> ToNonNegativeInt(Get(source, "squad_size")),
                           priority |-> SafeStr(Get(source, "priority")),
                           from_zone |-> NormalizeZone(Get(source, "from_zone")),
                           to_zone |-> NormalizeZone(Get(source, "to_zone")),
                           count |-> ToNonNegativeInt(Get(source, "count")),
                           decoy_zone |-> NormalizeZone(Get(source, "decoy_zone")),
                           decoy_size |-> ToNonNegativeInt(Get(source, "decoy_size")),
                           real_target_zone |->
                               NormalizeZone(Get(source, "real_target_zone")),
                           real_size |-> ToNonNegativeInt(Get(source, "real_size")),
                           reasoning |-> CoerceReasoning(parsed, source) ] ]

----------------------------------------------------------------------------
(* _extract_from_loose_text *)

\* the leading [A-Za-z_]+ run of a word; the words not listed are all letters
LetterPrefixTable ==
    ("" :> "") @@ ("0" :> "") @@ ("1" :> "") @@ ("2" :> "") @@ ("3" :> "")
    @@ ("7" :> "") @@ ("-3" :> "") @@ ("{}" :> "") @@ ("[]" :> "")

LetterPrefix(w) == IF w \in DOMAIN LetterPrefixTable THEN LetterPrefixTable[w] ELSE w

NoHit == [hit |-> FALSE, s |-> EmptyStr, n |-> 0]
HitStr(s) == [hit |-> TRUE, s |-> s, n |-> 0]
HitInt(n) == [hit |-> TRUE, s |-> EmptyStr, n |-> n]

\* what "?([A-Za-z_]+)"? captures where a value starts
CaptureWord(v) ==
    CASE v.t = "str" ->
             IF ~v.s.ws /\ LetterPrefix(v.s.w) # ""
             THEN HitStr(S(LetterPrefix(v.s.w))) ELSE NoHit
      [] v.t = "bare" -> HitStr(S(v.s.w))
      [] v.t = "null" -> HitStr(S("null"))
      [] v.t = "bool" -> HitStr(IF v.n = 1 THEN S("true") ELSE S("false"))
      [] v.t = "nan" -> HitStr(S("NaN"))
      [] v.t = "inf" -> IF v.s.w = "Infinity" THEN HitStr(S("Infinity")) ELSE NoHit
      [] OTHER -> NoHit

\* what (\d+) captures where a value starts
CaptureDigits(v) ==
    CASE v.t \in {"int", "float"} -> IF v.n >= 0 THEN HitInt(v.n) ELSE NoHit
      [] v.t = "inf" -> IF v.s.w = "1e999" THEN HitInt(1) ELSE NoHit
      [] OTHER -> NoHit

\* what "([^"]*)" captures where a value starts
CaptureQuoted(v) == IF v.t = "str" THEN HitStr(v.s) ELSE NoHit

Capture(kind, v) ==
    CASE kind = "word" -> CaptureWord(v)
      [] kind = "digits" -> CaptureDigits(v)
      [] OTHER -> CaptureQuoted(v)

\* re.search(pattern, raw_text, flags=re.IGNORECASE) for a pattern
\* "(?:k1|k2|...)"\s*:\s*<capture>: the first key token of one of the names,
\* case folded, whose value gives a capture
RECURSIVE ReSearch(_, _, _, _)
ReSearch(text, keys, kind, i) ==
    IF i > Len(text) THEN NoHit
    ELSE IF text[i].c = "key" /\ LowerWord(text[i].k) \in keys
         THEN LET j == SkipWs(text, i + 1)
                  c == IF j <= Len(text) /\ text[j].c = "val"
                       THEN Capture(kind, text[j].v) ELSE NoHit
              IN IF c.hit THEN c ELSE ReSearch(text, keys, kind, i + 1)
    ELSE ReSearch(text, keys, kind, i + 1)

\* NormalizeZone and NormalizeOrder of a captured str
StrVal(s) == [t |-> "str", s |-> s, n |-> 0, o |-> <<>>]

LooseZone(text, keys, default) ==
    LET m == ReSearch(text, keys, "word", 1) IN
    IF m.hit THEN NormalizeZone(StrVal(m.s)) ELSE default

\* variant that never reads a number from the text
LooseIntDefault(text, keys, default) == default
LooseInt(text, keys, default) ==
    LET m == ReSearch(text, keys, "digits", 1) IN
    IF m.hit THEN Max(0, m.n) ELSE default

LooseNone == [found |-> FALSE, d |-> BuildHoldDirective(DEFAULT_HOLD_REASONING)]

ExtractFromLooseText(raw_text) ==
    LET order_match == ReSearch(raw_text, {"order", "directive"}, "word", 1) IN
    IF ~order_match.hit THEN LooseNone
    ELSE LET hold == BuildHoldDirective(DEFAULT_HOLD_REASONING)
             normalized == NormalizeOrder(StrVal(order_match.s))
             reasoning_match == ReSearch(raw_text, {"reasoning"}, "quoted", 1)
         IN [ found |-> TRUE,
              d |-> [ order |-> IF normalized.w = "invalid" THEN S("hold")
                                ELSE normalized,
                      target_zone |->
                          LooseZone(raw_text, {"target_zone", "targetzone", "target"},
                                    hold.target_zone),
                      squad_size |->
                          LooseInt(raw_text, {"squad_size", "squadsize"}, hold.squad_size),
                      priority |-> hold.priority,
                      from_zone |->
                          LooseZone(raw_text, {"from_zone", "fromzone", "from"},
                                    hold.from_zone),
                      to_zone |->
                          LooseZone(raw_text, {"to_zone", "tozone", "to"}, hold.to_zone),
                      count |-> LooseInt(raw_text, {"count"}, hold.count),
                      decoy_zone |->
                          LooseZone(raw_text, {"decoy_zone", "decoyzone"}, hold.decoy_zone),
                      decoy_size |->
                          LooseInt(raw_text, {"decoy_size", "decoysize"}, hold.decoy_size),
                      real_target_zone |->
                          LooseZone(raw_text, {"real_target_zone", "realtargetzone"},
                                    hold.real_target_zone),
                      real_size |->
                          LooseInt(raw_text, {"real_size", "realsize"}, hold.real_size),
                      reasoning |->
                          IF reasoning_match.hit /\ Truthy(Strip(reasoning_match.s))
                          THEN Strip(reasoning_match.s) ELSE hold.reasoning ] ]

----------------------------------------------------------------------------
(* _normalize_swarm_directive *)

\* (normalized_json, is_valid, status); raised stands for an exception
\* leaving the function
Normalized(json, valid, status) ==
    [json |-> json, valid |-> valid, status |-> status, raised |-> FALSE]
NormalizeRaised ==
    [json |-> <<>>, valid |-> FALSE, status |-> "raised", raised |-> TRUE]

\* the verdict of lines 800-801 and 809-810 on a recovered directive
LooseVerdict(loose) == IsActionableDirective(loose)

\* the verdict of line 817 on a coerced directive
CoercedVerdict(directive) == TRUE

\* lines 798-802 and 807-811: loose is _extract_from_loose_text(raw_text)
NormalizeRecovered(loose, recovered_status, failed_status) ==
    IF loose.found
    THEN Normalized(ToJson(loose.d), LooseVerdict(loose.d), recovered_status)
    ELSE Normalized(HoldJson, FALSE, failed_status)

\* lines 813-817: coerced is _coerce_directive(parsed)
NormalizeCoerced(coerced) ==
    IF coerced.kind = "raised" THEN NormalizeRaised
    ELSE IF coerced.kind = "none"
         THEN Normalized(HoldJson, FALSE, "directive_shape_invalid")
    ELSE Normalized(ToJson(coerced.d), CoercedVerdict(coerced.d), "model_valid")

\* lines 804-817: parsed is json.loads(payload)
NormalizeParsed(raw_text, parsed) ==
    IF ~parsed.ok
    THEN NormalizeRecovered(ExtractFromLooseText(raw_text),
                            "json_decode_loose_tokens", "json_decode_failed")
    ELSE NormalizeCoerced(CoerceDirective(parsed.v))

\* variant reporting a text without payload as a failed JSON attempt
NormalizeLocatedAsDecode(raw_text, payload) ==
    IF ~payload.found
    THEN NormalizeRecovered(ExtractFromLooseText(raw_text),
                            "json_decode_loose_tokens", "json_decode_failed")
    ELSE NormalizeParsed(raw_text, JsonLoads(payload.text))
\* lines 796-802: payload is _extract_json_payload(raw_text)
NormalizeLocated(raw_text, payload) ==
    IF ~payload.found
    THEN NormalizeRecovered(ExtractFromLooseText(raw_text),
                            "loose_tokens", "no_json_object")
    ELSE NormalizeParsed(raw_text, JsonLoads(payload.text))

NormalizeSwarmDirective(raw_text) ==
    NormalizeLocated(raw_text, ExtractJsonPayload(raw_text))

----------------------------------------------------------------------------
(* Oracle responses and FoodAnalyzer._extract_response_candidates *)

\* An accessor of the response: absent/None, a value, or one that raises.
Exc(type, defect_message) == [type |-> type, defect_message |-> defect_message]
NoExc == Exc("", FALSE)
NoAttr == [kind |-> "none", toks |-> <<>>, pairs |-> <<>>, exc |-> NoExc]
TextAttr(toks) == [kind |-> "value", toks |-> toks, pairs |-> <<>>, exc |-> NoExc]
DictAttr(pairs) == [kind |-> "dict", toks |-> <<>>, pairs |-> pairs, exc |-> NoExc]
RaisingAttr(exc) == [kind |-> "raises", toks |-> <<>>, pairs |-> <<>>, exc |-> exc]

Part(text, thought, fc) == [text |-> text, thought |-> thought, fc |-> fc]
RespCandidate(parts, finish) == [parts |-> parts, finish |-> finish]
Response(text, parsed, cands_raises, cands) ==
    [text |-> text, parsed |-> parsed, cands_raises |-> cands_raises, cands |-> cands]

\* json.dumps(value, separators=(",", ":")) of a dict given by its pairs
RECURSIVE DumpPairs(_, _)
DumpPairs(pairs, i) ==
    IF i > Len(pairs) THEN <<>>
    ELSE (IF i > 1 THEN <<CM>> ELSE <<>>)
         \o <<Key(pairs[i].k)>>
         \o (IF pairs[i].v.t = "obj"
             THEN <<LB>> \o DumpPairs(pairs[i].v.o, 1) \o <<RB>>
             ELSE <<Val(pairs[i].v)>>)
         \o DumpPairs(pairs, i + 1)

DumpDict(pairs) == <<LB>> \o DumpPairs(pairs, 1) \o <<RB>>

\* _append_candidate; cs is the candidate list (seen_texts is its set of texts)
SeenTexts(cs) == {cs[i].text : i \in 1..Len(cs)}

\* variant that keeps a text already seen
AppendCandidateAgain(cs, source, text) ==
    IF StripText(text) = <<>> THEN cs
    ELSE Append(cs, [source |-> source, text |-> StripText(text)])
AppendCandidate(cs, source, text) ==
    LET trimmed == StripText(text) IN
    IF text = <<>> THEN cs
    ELSE IF trimmed = <<>> THEN cs
    ELSE IF trimmed \in SeenTexts(cs) THEN cs
    ELSE Append(cs, [source |-> source, text |-> trimmed])

\* step 1, lines 455-460
FromTextAccessor(cs, response) ==
    IF response.text.kind = "value" /\ response.text.toks # <<>>
    THEN AppendCandidate(cs, "response.text", StripText(response.text.toks))
    ELSE cs

\* step 2, lines 464-473
FromParsed(cs, response) ==
    IF response.parsed.kind = "dict"
    THEN AppendCandidate(cs, "response.parsed", DumpDict(response.parsed.pairs))
    ELSE IF response.parsed.kind = "value"
         THEN AppendCandidate(cs, "response.parsed", StripText(response.parsed.toks))
    ELSE cs

PartSource(ci, pi) ==
    "candidate[" \o ToString(ci - 1) \o "].part[" \o ToString(pi - 1) \o "]"

\* the function_call appends made while the parts are walked, lines 498-514
RECURSIVE FromFunctionCalls(_, _, _, _)
FromFunctionCalls(cs, parts, ci, pi) ==
    IF pi > Len(parts) THEN cs
    ELSE LET fc == parts[pi].fc
             next == IF fc.kind = "dict"
                     THEN AppendCandidate(cs, PartSource(ci, pi) \o ".function_call.args",
                                          DumpDict(fc.pairs))
                     ELSE IF fc.kind = "value"
                          THEN AppendCandidate(cs,
                                   PartSource(ci, pi) \o ".function_call.args",
                                   StripText(fc.toks))
                     ELSE cs
         IN FromFunctionCalls(next, parts, ci, pi + 1)

\* the indices of the parts whose stripped text is non-empty, thought parts
\* included or not
TextParts(parts, with_thought) ==
    SelectSeq([i \in 1..Len(parts) |-> i],
              LAMBDA i : /\ StripText(parts[i].text) # <<>>
                         /\ (with_thought \/ ~parts[i].thought))

RECURSIVE JoinParts(_, _, _)
JoinParts(parts, idxs, k) ==
    IF k > Len(idxs) THEN <<>>
    ELSE StripText(parts[idxs[k]].text) \o JoinParts(parts, idxs, k + 1)

RECURSIVE FromEachPart(_, _, _, _, _)
FromEachPart(cs, parts, idxs, ci, k) ==
    IF k > Len(idxs) THEN cs
    ELSE FromEachPart(
             AppendCandidate(cs, PartSource(ci, idxs[k]), StripText(parts[idxs[k]].text)),
             parts, idxs, ci, k + 1)

\* one response-candidate, lines 480-545
FromRespCandidate(cs, cand, ci) ==
    IF cand.parts = <<>> THEN cs
    ELSE LET part_texts == TextParts(cand.parts, FALSE)
             all_part_texts == TextParts(cand.parts, TRUE)
             c1 == FromFunctionCalls(cs, cand.parts, ci, 1)
         IN IF part_texts = <<>> /\ all_part_texts = <<>> THEN c1
            ELSE LET c2 == IF part_texts # <<>>
                           THEN AppendCandidate(c1,
                                    "candidate[" \o ToString(ci - 1) \o "].parts_merged",
                                    StripText(JoinParts(cand.parts, part_texts, 1)))
                           ELSE c1
                     c3 == FromEachPart(c2, cand.parts, part_texts, ci, 1)
                 IN IF all_part_texts # <<>>
                    THEN AppendCandidate(c3,
                             "candidate[" \o ToString(ci - 1) \o "].all_parts_merged",
                             StripText(JoinParts(cand.parts, all_part_texts, 1)))
                    ELSE c3

RECURSIVE FromRespCandidates(_, _, _)
FromRespCandidates(cs, cands, ci) ==
    IF ci > Len(cands) THEN cs
    ELSE FromRespCandidates(FromRespCandidate(cs, cands[ci], ci), cands, ci + 1)

ExtractResponseCandidates(response) ==
    LET c1 == FromTextAccessor(<<>>, response)
        c2 == FromParsed(c1, response)
    IN IF response.cands_raises THEN c2
       ELSE FromRespCandidates(c2, response.cands, 1)

----------------------------------------------------------------------------
(* _extract_response_diagnostics, _should_force_non_thinking_rescue *)

UpperTable ==
    ("max_tokens" :> "MAX_TOKENS") @@ ("stop" :> "STOP")
    @@ ("FinishReason.MAX_TOKENS" :> "FINISHREASON.MAX_TOKENS")
    @@ ("FinishReason.STOP" :> "FINISHREASON.STOP")

UpperWord(w) == IF w \in DOMAIN UpperTable THEN UpperTable[w] ELSE w

\* "MAX_TOKENS" in w, for the upper-cased finish reasons of the vocabulary
ContainsMaxTokens(w) == w \in {"MAX_TOKENS", "FINISHREASON.MAX_TOKENS"}

\* diagnostics["finish_reasons"]: the truthy finish reasons, in order
FinishReasons(response) ==
    IF response.cands_raises THEN <<>>
    ELSE LET all == [i \in 1..Len(response.cands) |-> response.cands[i].finish]
         IN SelectSeq(all, LAMBDA f : f # "")

ReportsMaxTokens(finish_reasons) ==
    \E i \in 1..Len(finish_reasons) : ContainsMaxTokens(UpperWord(finish_reasons[i]))

ShouldForceNonThinkingRescue(outcome, finish_reasons) ==
    IF LowerWord(outcome.status) # "no_json_object" THEN FALSE
    ELSE ReportsMaxTokens(finish_reasons)

----------------------------------------------------------------------------
(* _select_candidate_outcome *)

\* raised: an exception of _normalize_swarm_directive left the function
Outcome(candidate, n) ==
    [source |-> candidate.source, raw |-> candidate.text, status |-> n.status,
     model_valid |-> n.valid, normalized_json |-> n.json, raised |-> n.raised]

NoCandidatesOutcome ==
    [source |-> "<none>", raw |-> <<>>, status |-> "no_candidates",
     model_valid |-> FALSE, normalized_json |-> HoldJson, raised |-> FALSE]

RecoverableStatuses == {"loose_tokens", "json_decode_loose_tokens"}

\* where the loop of lines 760-778 stops early: the first candidate whose
\* normalization raises or is valid (0 when it runs to the end)
RECURSIVE FirstStop(_, _)
FirstStop(ns, i) ==
    IF i > Len(ns) THEN 0
    ELSE IF ns[i].raised \/ ns[i].valid THEN i
    ELSE FirstStop(ns, i + 1)

\* best_recoverable: the first candidate with a recoverable status
RECURSIVE FirstRecoverable(_, _)
FirstRecoverable(ns, i) ==
    IF i > Len(ns) THEN 0
    ELSE IF ns[i].status \in RecoverableStatuses THEN i
    ELSE FirstRecoverable(ns, i + 1)

\* the choice of lines 771-792: the index of the candidate whose outcome is
\* returned, 0 for the synthetic no_candidates outcome
ChosenIndex(ns, stop, recoverable) ==
    IF stop # 0 THEN stop
    ELSE IF recoverable # 0 THEN recoverable
    ELSE IF Len(ns) >= 1 THEN 1
    ELSE 0

\* ns[i] is _normalize_swarm_directive(cs[i].text)
SelectAmong(cs, ns, chosen) ==
    IF chosen = 0 THEN NoCandidatesOutcome ELSE Outcome(cs[chosen], ns[chosen])

NormalizeEach(cs) == [i \in 1..Len(cs) |-> NormalizeSwarmDirective(cs[i].text)]

SelectNormalized(cs, ns) ==
    SelectAmong(cs, ns, ChosenIndex(ns, FirstStop(ns, 1), FirstRecoverable(ns, 1)))

SelectCandidateOutcome(cs) == SelectNormalized(cs, NormalizeEach(cs))

----------------------------------------------------------------------------
(* Model names, settings and the attempt list *)

NON_THINKING_RESCUE_MODEL == S("gemini-2.0-flash")

\* w.startswith(p) for the model names of the vocabulary
PrefixPairs ==
    { <<"gemini-3-flash", "gemini-3">>, <<"gemini-2.5-flash", "gemini-2.5">>,
      <<"gemini-2.5-pro", "gemini-2.5">> }

StartsWith(w, p) == <<w, p>> \in PrefixPairs

IsLikelyThinkingModel(model_name) ==
    LET token == Lower(Strip(model_name)).w IN
    StartsWith(token, "gemini-3") \/ StartsWith(token, "gemini-2.5")

MinOutputTokens == 32
ThinkingMinTokens == 1024

\* variant that grants a thinking model no larger budget
EffectiveMaxTokensAsRequested(model_name, requested_max_tokens) ==
    Max(MinOutputTokens, requested_max_tokens)
EffectiveMaxTokensForModel(model_name, requested_max_tokens) ==
    LET token_budget == Max(MinOutputTokens, requested_max_tokens) IN
    IF IsLikelyThinkingModel(model_name)
    THEN Max(token_budget, ThinkingMinTokens)
    ELSE token_budget

\* max(0.0, min(2.0, t)), temperatures in tenths
MaxTemperature == 20
ClampTemperature(t) == Max(0, Min(MaxTemperature, t))

\* a or b on str
Or(a, b) == IF Truthy(a) THEN a ELSE b

SelectedModel(c) == Or(c.model_name, Or(c.swarm_model, c.gemini_model))
RetryModel(c) == Or(c.swarm_retry_model, NON_THINKING_RESCUE_MODEL)

\* variant that retries on any nonzero count
RetryCountNonzero(configured) == IF configured # 0 THEN 1 ELSE 0
\* line 212
RetryCount(configured) == Max(0, Min(1, configured))

Attempt(name, model, temperature) ==
    [name |-> name, model |-> model, temperature |-> temperature]

\* lines 224-239
BuildAttempts(c) ==
    LET primary == Attempt("primary", SelectedModel(c), ClampTemperature(c.request.temperature))
    IN IF RetryCount(c.swarm_retry_count) > 0
       THEN <<primary, Attempt("retry", RetryModel(c), 0)>>
       ELSE <<primary>>

\* line 245 (and line 410)
AttemptModel(attempt, selected_model) ==
    LET m == Strip(attempt.model) IN IF Truthy(m) THEN m ELSE selected_model

\* _build_swarm_generate_config as the oracle sees it
GenerateConfig(temperature, max_tokens, use_schema) ==
    [temperature |-> ClampTemperature(temperature),
     max_output_tokens |-> Max(MinOutputTokens, max_tokens),
     use_schema |-> use_schema]

\* variants of the defect test: never, and on any TypeError
NeverSchemaParseError(exc) == FALSE
AnyTypeErrorIsSchemaParseError(exc) == exc.type = "TypeError"
IsSchemaParseNoneTextError(exc) == exc.type = "TypeError" /\ exc.defect_message

\* variant without the rescue override
RescueNever(atts, i, outcome, finish_reasons) == atts
\* lines 369-374: the attempt list after a non-valid outcome of attempt i
RescueOverride(atts, i, outcome, finish_reasons) ==
    IF i < Len(atts)
       /\ ShouldForceNonThinkingRescue(outcome, finish_reasons)
       /\ IsLikelyThinkingModel(atts[i + 1].model)
    THEN [atts EXCEPT ![i + 1] =
              [@ EXCEPT !.model = NON_THINKING_RESCUE_MODEL, !.temperature = 0]]
    ELSE atts

\* variant tagged with the primary's model
ValidResultSelected(outcome, attempt_model, selected_model) ==
    [raw_text |-> outcome.normalized_json, model |-> selected_model,
     provider |-> "vertex_gemini"]
\* lines 362-367
ValidResult(outcome, attempt_model, selected_model) ==
    [raw_text |-> outcome.normalized_json, model |-> attempt_model,
     provider |-> "vertex_gemini"]

\* variant emitting the last outcome's directive
ForcedHoldLastOutcome(atts, selected_model, outcome) ==
    [raw_text |-> outcome.normalized_json,
     model |-> AttemptModel(atts[Len(atts)], selected_model),
     provider |-> "vertex_gemini"]
\* lines 392-412
ForcedHold(atts, selected_model, outcome) ==
    [raw_text |-> ToJson(BuildHoldDirective(DEFAULT_HOLD_REASONING)),
     model |-> AttemptModel(atts[Len(atts)], selected_model),
     provider |-> "vertex_gemini"]

----------------------------------------------------------------------------
(* Inputs: settings, arguments and what the oracle may answer *)

\* configured retry counts range over -MaxRetryCount..MaxRetryCount
MaxRetryCount == 2
\* squad sizes the oracle writes range over -1..MaxSize
MaxSize == 2

P(k, v) == [k |-> k, v |-> v]

\* who calls and how the service is configured: the three ways line 210 picks
\* the primary model, each with its own request arguments
Callers ==
    { [model_name |-> EmptyStr, swarm_model |-> S("gemini-3-flash"),
       request |-> [max_tokens |-> 16, temperature |-> 25]],
      [model_name |-> EmptyStr, swarm_model |-> EmptyStr,
       request |-> [max_tokens |-> 300, temperature |-> 7]],
      [model_name |-> S("gemini-1.5-pro"), swarm_model |-> S("gemini-3-flash"),
       request |-> [max_tokens |-> 16000, temperature |-> -5]] }

RetryModels ==
    {EmptyStr, Str(TRUE, ""), Str(TRUE, "Gemini-2.5-Pro"), S("gemini-1.5-pro")}

Configs ==
    { [model_name |-> c.model_name, swarm_model |-> c.swarm_model,
       gemini_model |-> S("gemini-2.5-flash"), swarm_retry_model |-> m,
       swarm_retry_count |-> n, request |-> c.request] :
      c \in Callers, m \in RetryModels, n \in (-MaxRetryCount)..MaxRetryCount }

Exceptions ==
    { Exc("TypeError", TRUE), Exc("TypeError", FALSE), Exc("ConnectionError", TRUE) }

\* a response whose text accessor and single content part carry the same text
Plain(toks, finish) ==
    Response(TextAttr(toks), NoAttr, FALSE,
             <<RespCandidate(<<Part(toks, FALSE, NoAttr)>>, finish)>>)

\* a response that offers its text through the content parts only
PartsOnly(parts, finish) ==
    Response(NoAttr, NoAttr, FALSE, <<RespCandidate(parts, finish)>>)

HoldPairs == <<P("order", StrV("hold")), P("reasoning", StrV("x"))>>

ReinforcePairs(n) ==
    << P("order", StrV("Reinforce")), P("target_zone", StrV("Zone_Alpha")),
       P("squad_size", IntV(n)), P("reasoning", StrV("x")) >>

JsonResponses ==
    { Plain(DumpDict(HoldPairs), "STOP") }
    \cup { Plain(DumpDict(ReinforcePairs(n)), "STOP") : n \in (-1)..MaxSize }
    \cup { Plain(DumpDict(pairs), "STOP") : pairs \in
             { <<P("order", StrV("reinforce"))>>,
               << P("order", StrV("redistribute")), P("from_zone", StrV("alpha")),
                  P("to_zone", StrV("zone_alpha")), P("count", IntV(1)) >>,
               << P("order", StrV("redistribute")), P("from_zone", StrV("alpha")),
                  P("to_zone", StrV("bravo")), P("count", FloatV(1)) >>,
               << P("order", StrV("FEINT")), P("decoy_zone", StrV("alpha")),
                  P("decoy_size", StrV("7")), P("real_target_zone", StrV("Bravo")),
                  P("real_size", BoolV(TRUE)), P("priority", IntV(1)) >>,
               << P("order", StrV("feint")), P("decoy_zone", ArrV),
                  P("decoy_size", StrV("-3")), P("real_target_zone", NullV),
                  P("real_size", NanV), P("reasoning", WsStrV("")) >>,
               <<P("order", StrV("hold")), P("count", InfV("Infinity"))>>,
               <<P("order", StrV("recapture")), P("squad_size", InfV("1e999"))>>,
               <<P("order", StrV("invade")), P("count", InfV("Infinity"))>>,
               <<P("directive", StrV("recapture")), P("reasoning", StrV("x"))>>,
               << P("directive", ObjV(<< P("order", StrV("recapture")),
                                         P("target_zone", StrV("bravo")),
                                         P("squad_size", IntV(1)) >>)),
                  P("reasoning", StrV("x")) >>,
               <<P("score", IntV(1))>> } }
    \cup { Plain(<<FENCE, WORD, NL>> \o DumpDict(HoldPairs) \o <<NL, FENCE>>, "STOP"),
           Plain(<<FENCE>> \o DumpDict(HoldPairs) \o <<NL, FENCE>>, "STOP") }

ProseResponses ==
    { Plain(<< WORD, SP, Key("order"), SP, Val(StrV("reinforce")), CM, SP,
               Key("targetZone"), SP, Val(StrV("alpha")), CM, SP,
               Key("squad_size"), SP, Val(IntV(2)) >>, "STOP"),
      Plain(<<WORD, SP, Key("order"), SP, Val(StrV("reinforce"))>>, "STOP"),
      Plain(<<WORD, SP, Key("Order"), SP, Val(NullV)>>, "STOP"),
      Plain(<< LB, Key("order"), SP, Val(BareV("recapture")), CM, SP,
               Key("target"), SP, Val(BareV("bravo")), CM, SP,
               Key("squadSize"), SP, Val(IntV(1)), RB >>, "STOP"),
      Plain(DumpDict(HoldPairs) \o <<SP, WORD, SP>> \o DumpDict(<<P("x", IntV(1))>>),
            "STOP"),
      Plain(<<LB, WORD, RB>>, "STOP"),
      Plain(<<WORD>>, "STOP"),
      Plain(<<WORD>>, "MAX_TOKENS"),
      Plain(<<LB, Key("reasoning"), Val(StrV("x"))>>, "FinishReason.MAX_TOKENS"),
      Plain(<<LB, Key("order"), Val(StrV("hold")), CM, Key("reasoning")>>, "max_tokens") }

ShapedResponses ==
    { \* nothing at all, cut off by the token budget
      PartsOnly(<<>>, "MAX_TOKENS"),
      PartsOnly(<<>>, ""),
      \* reasoning text only
      PartsOnly(<<Part(<<WORD>>, TRUE, NoAttr)>>, "MAX_TOKENS"),
      \* reasoning text, then the payload split over two parts
      PartsOnly(<< Part(<<WORD, SP>>, TRUE, NoAttr),
                   Part(<<LB, Key("order"), Val(StrV("hold")), CM>>, FALSE, NoAttr),
                   Part(<<Key("reasoning"), Val(StrV("x")), RB, NL>>, FALSE, NoAttr) >>,
                "STOP"),
      \* a function call instead of text
      PartsOnly(<< Part(<<>>, FALSE,
                        DictAttr(<< P("order", StrV("recapture")),
                                    P("target_zone", StrV("bravo")),
                                    P("squad_size", IntV(1)) >>)) >>, "STOP"),
      \* the pre-parsed object only
      Response(NoAttr, DictAttr(HoldPairs), FALSE, <<>>),
      \* accessors that raise
      Response(RaisingAttr(Exc("ValueError", FALSE)), NoAttr, FALSE,
               <<RespCandidate(<<Part(DumpDict(HoldPairs), FALSE, NoAttr)>>, "STOP")>>),
      Response(RaisingAttr(Exc("TypeError", TRUE)), NoAttr, FALSE,
               <<RespCandidate(<<Part(DumpDict(HoldPairs), FALSE, NoAttr)>>, "STOP")>>),
      Response(TextAttr(DumpDict(HoldPairs)), NoAttr, TRUE, <<>>) }

Responses == JsonResponses \cup ProseResponses \cup ShapedResponses

NoResponse == Response(NoAttr, NoAttr, FALSE, <<>>)

\* the response carries no text accessor value, no parsed value, no part text
\* and no function call
CarriesNothing(response) ==
    /\ response.text.kind = "none"
    /\ response.parsed.kind = "none"
    /\ ~response.cands_raises
    /\ \A i \in 1..Len(response.cands) :
           \A j \in 1..Len(response.cands[i].parts) :
               /\ response.cands[i].parts[j].text = <<>>
               /\ response.cands[i].parts[j].fc.kind = "none"

----------------------------------------------------------------------------
(* strategize_swarm *)

VARIABLES
    cfg,             \* settings and request arguments of this call
    pc,              \* where the call stands
    attempts,        \* the attempt list
    attempt_index,   \* enumerate(attempts, start=1)
    response,        \* the response being processed
    last_outcome,
    last_exception,
    result,          \* the dict returned to the caller
    calls,           \* history: the oracle invocations made, in order
    history,         \* history: how each attempt ended, in order
    probe,           \* a pure function applied on its own: input and output
    analyzer,        \* two calls on one analyzer: the module-level singleton
    frames,          \* two calls on one analyzer: each call's local variables
    heap,            \* two calls on one analyzer: the attempt dicts, by identity
    broker_key,      \* token broker: whether BROKER_API_KEY is set
    now,             \* token broker: time.time()
    docs,            \* token broker: the Firestore collection, by app_user_id
    whoop,           \* token broker: the provider's refresh tokens
    logins,          \* token broker: the login flows started
    reqs             \* token broker: the callback and access-token requests

brokerVars == << broker_key, now, docs, whoop, logins, reqs >>

\* what a single call and a probed function leave alone
elsewhere == << analyzer, frames, heap, brokerVars >>

vars == << cfg, pc, attempts, attempt_index, response, last_outcome,
           last_exception, result, calls, history, probe, elsewhere >>

NoOutcome ==
    [source |-> "", raw |-> <<>>, status |-> "no_outcome", model_valid |-> FALSE,
     normalized_json |-> <<>>, raised |-> FALSE]

NoResult == [raw_text |-> <<>>, model |-> EmptyStr, provider |-> ""]

\* nothing is probed while strategize_swarm runs
NoProbe ==
    [ format |-> "", pairs |-> <<>>, text |-> <<>>, response |-> NoResponse,
      done |-> FALSE, triple |-> NormalizeRaised, candidates |-> <<>>,
      offers |-> <<>>, outcome |-> NoOutcome, payload |-> NoPayload,
      value |-> NullV, coerced |-> CoerceNone ]

\* no request has reached the service
NoAnalyzer == [created |-> FALSE, settings |-> <<>>]
\* the token broker is a service of its own
BrokerIdle ==
    /\ broker_key = FALSE
    /\ now = 0
    /\ docs = <<>>
    /\ whoop = <<>>
    /\ logins = <<>>
    /\ reqs = <<>>

NoCallsInFlight ==
    /\ analyzer = NoAnalyzer
    /\ frames = <<>>
    /\ heap = <<>>
    /\ BrokerIdle

Init ==
    /\ cfg \in Configs
    /\ pc = "start"
    /\ attempts = <<>>
    /\ attempt_index = 0
    /\ response = NoResponse
    /\ last_outcome = NoOutcome
    /\ last_exception = NoExc
    /\ result = NoResult
    /\ calls = <<>>
    /\ history = <<>>
    /\ probe = NoProbe
    /\ NoCallsInFlight

\* lines 210-246: the attempt list is built and the loop entered
Begin ==
    /\ pc = "start"
    /\ attempts' = BuildAttempts(cfg)
    /\ attempt_index' = 1
    /\ pc' = "schema_call"
    /\ UNCHANGED <<cfg, response, last_outcome, last_exception, result, calls, history,
                   probe, elsewhere>>

CurrentModel == AttemptModel(attempts[attempt_index], SelectedModel(cfg))

\* one generate_content call: its arguments, whether it returned a response
\* and the exception it raised otherwise
CallRecord(use_schema, answer) ==
    [attempt |-> attempt_index, model |-> CurrentModel,
     returned |-> ~answer.raised, exc |-> answer.exc]
    @@ GenerateConfig(attempts[attempt_index].temperature,
                      EffectiveMaxTokensForModel(CurrentModel, cfg.request.max_tokens),
                      use_schema)

FailedRecord(exc) ==
    [attempt |-> attempt_index, failed |-> TRUE, status |-> "raised",
     valid |-> FALSE, json |-> <<>>, max_tokens |-> FALSE, nothing |-> FALSE]

\* `continue`: the attempt is failed
Continue(exc) ==
    /\ last_exception' = exc
    /\ history' = Append(history, FailedRecord(exc))
    /\ attempt_index' = attempt_index + 1
    /\ pc' = IF attempt_index + 1 > Len(attempts) THEN "finish" ELSE "schema_call"
    /\ response' = NoResponse
    /\ UNCHANGED <<attempts, last_outcome, result>>

\* the exception the try block of lines 251-270 ends with, NoExc when it
\* completes: the invocation's own, or that of the accessors it prints
TryBlockException(answer) ==
    IF answer.raised THEN answer.exc
    ELSE IF answer.response.text.kind = "raises" THEN answer.response.text.exc
    ELSE IF answer.response.cands_raises THEN Exc("AttributeError", FALSE)
    ELSE NoExc

OracleAnswers ==
    { [raised |-> FALSE, response |-> r, exc |-> NoExc] : r \in Responses }
    \cup { [raised |-> TRUE, response |-> NoResponse, exc |-> e] : e \in Exceptions }

\* lines 251-312: the schema-constrained invocation
InvokeSchema ==
    /\ pc = "schema_call"
    /\ \E answer \in OracleAnswers :
          /\ calls' = Append(calls, CallRecord(TRUE, answer))
          /\ LET exc == TryBlockException(answer) IN
             IF exc = NoExc
             THEN /\ response' = answer.response
                  /\ pc' = "process"
                  /\ UNCHANGED <<attempts, attempt_index, last_outcome,
                                 last_exception, result, history>>
             ELSE IF IsSchemaParseNoneTextError(exc)
                  THEN /\ pc' = "no_schema_call"
                       /\ response' = NoResponse
                       /\ UNCHANGED <<attempts, attempt_index, last_outcome,
                                      last_exception, result, history>>
                  ELSE Continue(exc)
    /\ UNCHANGED <<cfg, probe, elsewhere>>

\* lines 281-302: the same attempt invoked again without the response schema
InvokeNoSchema ==
    /\ pc = "no_schema_call"
    /\ \E answer \in OracleAnswers :
          /\ calls' = Append(calls, CallRecord(FALSE, answer))
          /\ IF answer.raised
             THEN Continue(answer.exc)
             ELSE /\ response' = answer.response
                  /\ pc' = "process"
                  /\ UNCHANGED <<attempts, attempt_index, last_outcome,
                                 last_exception, result, history>>
    /\ UNCHANGED <<cfg, probe, elsewhere>>

OutcomeRecord(outcome, finish_reasons, nothing) ==
    [attempt |-> attempt_index, failed |-> FALSE, status |-> outcome.status,
     valid |-> outcome.model_valid, json |-> outcome.normalized_json,
     max_tokens |-> ReportsMaxTokens(finish_reasons), nothing |-> nothing]

\* lines 326-390 for the outcome of line 326
Settle(outcome, finish_reasons, nothing) ==
    IF outcome.raised
    THEN \* the exception leaves strategize_swarm
         /\ pc' = "raised"
         /\ UNCHANGED <<attempts, attempt_index, last_outcome, result, history>>
    ELSE /\ last_outcome' = outcome
         /\ history' = Append(history, OutcomeRecord(outcome, finish_reasons, nothing))
         /\ IF outcome.model_valid
            THEN /\ result' = ValidResult(outcome, CurrentModel, SelectedModel(cfg))
                 /\ pc' = "returned"
                 /\ UNCHANGED <<attempts, attempt_index>>
            ELSE /\ attempts' = RescueOverride(attempts, attempt_index, outcome,
                                               finish_reasons)
                 /\ attempt_index' = attempt_index + 1
                 /\ pc' = IF attempt_index + 1 > Len(attempts)
                          THEN "finish" ELSE "schema_call"
                 /\ UNCHANGED result

\* lines 314-390: extraction, ranking, the valid return and the rescue
Process ==
    /\ pc = "process"
    /\ Settle(SelectCandidateOutcome(ExtractResponseCandidates(response)),
              FinishReasons(response), CarriesNothing(response))
    /\ response' = NoResponse
    /\ UNCHANGED <<cfg, last_exception, calls, probe, elsewhere>>

\* lines 392-412: every attempt is spent
Finish ==
    /\ pc = "finish"
    /\ result' = ForcedHold(attempts, SelectedModel(cfg), last_outcome)
    /\ pc' = "returned"
    /\ UNCHANGED <<cfg, attempts, attempt_index, response, last_outcome,
                   last_exception, calls, history, probe, elsewhere>>

Next == Begin \/ InvokeSchema \/ InvokeNoSchema \/ Process \/ Finish

Spec == Init /\ [][Next]_vars

----------------------------------------------------------------------------
(* _normalize_swarm_directive and _extract_response_candidates applied on    *)
(* their own to handcrafted texts and responses                              *)

\* a member left out of a payload
AbsentV == JV("absent", EmptyStr, 0)
Opt(k, v) == IF v.t = "absent" THEN <<>> ELSE <<P(k, v)>>

ZoneChoices == {AbsentV, StrV(""), StrV("alpha"), StrV("bravo")}
SizeChoices == {AbsentV} \cup {IntV(n) : n \in 0..MaxSize}

\* the members written for an order token: the order, a choice for each field
\* the order requires (lines 714-731) and a reasoning
OneZonePairs(token) ==
    { <<P("order", StrV(token))>> \o Opt("target_zone", z) \o Opt("squad_size", n)
      \o <<P("reasoning", StrV("x"))>> : z \in ZoneChoices, n \in SizeChoices }
RedistributePairs ==
    { <<P("order", StrV("redistribute"))>> \o Opt("from_zone", f) \o Opt("to_zone", t)
      \o Opt("count", n) \o <<P("reasoning", StrV("x"))>> :
      f \in ZoneChoices, t \in ZoneChoices, n \in SizeChoices }
FeintPairs ==
    { <<P("order", StrV("feint"))>> \o Opt("decoy_zone", d)
      \o Opt("real_target_zone", r) \o Opt("decoy_size", n) \o Opt("real_size", m)
      \o <<P("reasoning", StrV("x"))>> :
      d \in ZoneChoices, r \in ZoneChoices, n \in SizeChoices, m \in SizeChoices }
ProbePairs ==
    OneZonePairs("reinforce") \cup OneZonePairs("recapture") \cup OneZonePairs("invade")
    \cup RedistributePairs \cup FeintPairs
    \cup { <<P("order", StrV("hold")), P("reasoning", StrV("x"))>> }

\* members with values of other types, other spellings and other keys
OddPairs ==
    { ReinforcePairs(n) : n \in (-1)..MaxSize }
    \cup { << P("order", StrV("redistribute")), P("from_zone", StrV("alpha")),
              P("to_zone", StrV("bravo")), P("count", FloatV(1)) >>,
           << P("order", StrV("FEINT")), P("decoy_zone", StrV("alpha")),
              P("decoy_size", StrV("7")), P("real_target_zone", StrV("Bravo")),
              P("real_size", BoolV(TRUE)), P("priority", IntV(1)) >>,
           << P("order", StrV("feint")), P("decoy_zone", ArrV),
              P("decoy_size", StrV("-3")), P("real_target_zone", NullV),
              P("real_size", NanV), P("reasoning", WsStrV("")) >>,
           <<P("order", StrV("recapture")), P("squad_size", InfV("1e999"))>>,
           <<P("directive", StrV("recapture")), P("reasoning", StrV("x"))>>,
           << P("directive", ObjV(<< P("order", StrV("recapture")),
                                     P("target_zone", StrV("bravo")),
                                     P("squad_size", IntV(1)) >>)),
              P("reasoning", StrV("x")) >>,
           <<P("score", IntV(1))>> }

\* the members as prose: word "k": v, word "k": v, ...
RECURSIVE ProsePairs(_, _)
ProsePairs(pairs, i) ==
    IF i > Len(pairs) THEN <<>>
    ELSE <<WORD, SP, Key(pairs[i].k), SP, Val(pairs[i].v)>>
         \o (IF i < Len(pairs) THEN <<CM, SP>> ELSE <<>>)
         \o ProsePairs(pairs, i + 1)

\* a language tag after the opening fence
TAG == [c |-> "word", k |-> "json", v |-> NullV]

TextFormats ==
    { "json", "truncated", "trailing_comma", "prose", "prose_open_brace",
      "prose_braces", "fence_nl", "fence_tag_nl", "fence_bare", "fence_tag_bare",
      "fence_close_nl", "fence_open_nl" }

\* the text of the members in a format
Render(format, pairs) ==
    CASE format \in {"json", "json_odd"} -> DumpDict(pairs)
      [] format = "truncated" -> <<LB>> \o DumpPairs(pairs, 1)
      [] format = "trailing_comma" -> <<LB>> \o DumpPairs(pairs, 1) \o <<CM, RB>>
      [] format = "prose" -> ProsePairs(pairs, 1)
      [] format = "prose_open_brace" -> <<WORD, SP, LB, SP>> \o ProsePairs(pairs, 1)
      [] format = "prose_braces" ->
             <<WORD, SP, LB, WORD, RB, SP>> \o ProsePairs(pairs, 1)
      [] format = "fence_nl" -> <<FENCE, NL>> \o DumpDict(pairs) \o <<NL, FENCE>>
      [] format = "fence_tag_nl" ->
             <<FENCE, TAG, NL>> \o DumpDict(pairs) \o <<NL, FENCE>>
      [] format = "fence_bare" -> <<FENCE>> \o DumpDict(pairs) \o <<FENCE>>
      [] format = "fence_tag_bare" -> <<FENCE, TAG>> \o DumpDict(pairs) \o <<FENCE>>
      [] format = "fence_close_nl" -> <<FENCE>> \o DumpDict(pairs) \o <<NL, FENCE>>
      [] OTHER -> <<FENCE, NL>> \o DumpDict(pairs) \o <<FENCE>>

TextProbe(format, pairs) ==
    [NoProbe EXCEPT !.format = format, !.pairs = pairs, !.text = Render(format, pairs)]

\* a token of reasoning text
THINK == [c |-> "word", k |-> "thought", v |-> NullV]

\* responses with reasoning parts: the text accessor, when the SDK offers it,
\* joins the non-thought parts
ThoughtResponses ==
    { PartsOnly(<<Part(<<THINK>>, TRUE, NoAttr)>>, "MAX_TOKENS"),
      PartsOnly(<<Part(<<THINK, SP>>, TRUE, NoAttr),
                  Part(DumpDict(HoldPairs), FALSE, NoAttr)>>, "STOP"),
      Response(TextAttr(DumpDict(HoldPairs)), NoAttr, FALSE,
               <<RespCandidate(<<Part(<<THINK, SP>>, TRUE, NoAttr),
                                 Part(DumpDict(HoldPairs), FALSE, NoAttr)>>, "STOP")>>),
      Response(NoAttr, DictAttr(HoldPairs), FALSE,
               <<RespCandidate(<<Part(<<THINK>>, TRUE, NoAttr)>>, "STOP")>>),
      PartsOnly(<<Part(<<THINK>>, TRUE, DictAttr(HoldPairs))>>, "STOP"),
      PartsOnly(<<Part(<<THINK>>, TRUE, NoAttr),
                  Part(<<>>, FALSE, DictAttr(HoldPairs))>>, "STOP"),
      PartsOnly(<<Part(DumpDict(HoldPairs), FALSE, NoAttr),
                  Part(<<THINK>>, TRUE, NoAttr)>>, "STOP"),
      Response(RaisingAttr(Exc("ValueError", FALSE)), NoAttr, FALSE,
               <<RespCandidate(<<Part(<<THINK>>, TRUE, NoAttr),
                                 Part(DumpDict(HoldPairs), FALSE, NoAttr)>>, "STOP")>>) }

\* responses that offer text through several sources at once, all different
SeveralSourceResponses ==
    { Response(TextAttr(<<WORD>>), DictAttr(<<P("score", IntV(1))>>), FALSE,
               << RespCandidate(
                      << Part(<<THINK, SP>>, TRUE, NoAttr),
                         Part(<<>>, FALSE,
                              DictAttr(<< P("order", StrV("recapture")),
                                          P("target_zone", StrV("bravo")),
                                          P("squad_size", IntV(1)) >>)),
                         Part(<<LB, Key("order"), Val(StrV("hold")), CM>>, FALSE, NoAttr),
                         Part(<<Key("reasoning"), Val(StrV("x")), RB>>, FALSE, NoAttr) >>,
                      "STOP"),
                  RespCandidate(<<Part(DumpDict(ReinforcePairs(1)), FALSE, NoAttr)>>,
                                "STOP") >>),
      PartsOnly(<< Part(<<WORD, SP>>, FALSE, NoAttr),
                   Part(DumpDict(ReinforcePairs(1)), FALSE, DictAttr(HoldPairs)) >>,
                "STOP") }

ResponseProbe(r) ==
    [NoProbe EXCEPT !.format = "response", !.response = r]

\* candidate texts of every status: valid, recovered, rejected, and one whose
\* normalization raises
RankTexts ==
    { DumpDict(HoldPairs),
      DumpDict(ReinforcePairs(1)),
      <<WORD, SP, Key("order"), SP, Val(StrV("reinforce"))>>,
      <<LB, Key("order"), Val(StrV("hold")), CM, RB>>,
      DumpDict(<<P("score", IntV(1))>>),
      <<WORD>>,
      DumpDict(<<P("order", StrV("hold")), P("count", InfV("Infinity"))>>) }

\* candidate lists as the extractor builds them: distinct texts, at most
\* MaxCandidates of them
MaxCandidates == 3
Labelled(texts) ==
    [i \in 1..Len(texts) |-> [source |-> "candidate[" \o ToString(i - 1) \o "]",
                              text |-> texts[i]]]
CandidateLists ==
    { Labelled(texts) :
        texts \in { t \in UNION { [1..n -> RankTexts] : n \in 0..MaxCandidates } :
                      \A i, j \in DOMAIN t : i # j => t[i] # t[j] } }

\* texts offered to _append_candidate: empty, blank, and the same text with
\* and without surrounding whitespace
OfferTexts == { <<>>, <<SP>>, <<WORD>>, <<SP, WORD, NL>>, <<TAG>> }
MaxOffers == 3
OfferLists ==
    { [i \in 1..Len(texts) |-> [source |-> "offer[" \o ToString(i - 1) \o "]",
                                text |-> texts[i]]] :
        texts \in UNION { [1..n -> OfferTexts] : n \in 0..MaxOffers } }

OffersProbe(offers) == [NoProbe EXCEPT !.format = "offers", !.offers = offers]

\* members that name no order and no directive, in the formats that are not
\* valid JSON and as JSON
TokenlessPairs ==
    { <<P("target_zone", StrV("alpha")), P("squad_size", IntV(2))>>,
      <<P("reasoning", StrV("x"))>>,
      <<P("score", IntV(1))>> }
TokenlessShapes ==
    {"json", "truncated", "trailing_comma", "prose", "prose_open_brace", "prose_braces"}
TokenlessFormats == {"no_token:" \o shape : shape \in TokenlessShapes}
TokenlessProbe(shape, pairs) ==
    [NoProbe EXCEPT !.format = "no_token:" \o shape, !.pairs = pairs,
                    !.text = Render(shape, pairs)]

\* flat members that name an order first and a reasoning last
ShapePairs ==
    ProbePairs
    \cup { ReinforcePairs(n) : n \in (-1)..MaxSize }
    \cup { << P("order", StrV("FEINT")), P("decoy_zone", StrV("alpha")),
              P("decoy_size", StrV("7")), P("real_target_zone", StrV("Bravo")),
              P("real_size", BoolV(TRUE)), P("priority", IntV(1)),
              P("reasoning", WsStrV("r")) >>,
           << P("order", StrV("recapture")), P("target_zone", StrV("bravo")),
              P("squad_size", InfV("1e999")), P("reasoning", StrV("x")) >> }

\* the shapes _coerce_directive accepts (lines 843-853) for flat members: the
\* order and fields under a nested directive object, with the reasoning inside
\* or beside it; the order named by a string directive key; both keys at once
OtherOrder(v) == IF v = StrV("hold") THEN StrV("feint") ELSE StrV("hold")
Shaped(shape, pairs) ==
    CASE shape = "nested" -> <<P("directive", ObjV(pairs))>>
      [] shape = "nested_envelope" ->
             <<P("directive", ObjV(SubSeq(pairs, 1, Len(pairs) - 1))), pairs[Len(pairs)]>>
      [] shape = "named" -> <<P("directive", pairs[1].v)>> \o Tail(pairs)
      [] shape = "both" -> <<P("directive", OtherOrder(pairs[1].v)), pairs[1]>> \o Tail(pairs)
      [] OTHER -> pairs
CoerceShapes == {"nested", "nested_envelope", "named", "both"}

\* parsed values that are no objects, and objects that name no order
NonObjectValues == {IntV(1), FloatV(1), StrV("hold"), BoolV(TRUE), NullV, ArrV}
RejectedPairs ==
    { <<>>,
      <<P("score", IntV(1))>>,
      <<P("target_zone", StrV("alpha")), P("squad_size", IntV(2))>>,
      <<P("target_zone", StrV("alpha")), P("count", InfV("Infinity"))>>,
      <<P("order", NullV), P("directive", StrV("hold"))>>,
      <<P("order", StrV("")), P("target_zone", StrV("alpha"))>>,
      <<P("directive", IntV(5)), P("reasoning", StrV("x"))>>,
      <<P("directive", ObjV(<<>>)), P("reasoning", StrV("x"))>>,
      <<P("directive", ObjV(<<P("target_zone", StrV("alpha"))>>))>> }

CoerceProbe(shape, pairs) ==
    [NoProbe EXCEPT !.format = "coerce:" \o shape, !.pairs = pairs,
                    !.value = ObjV(Shaped(shape, pairs))]
ValueProbe(v) == [NoProbe EXCEPT !.format = "coerce:value", !.value = v]
RejectedProbe(pairs) ==
    [NoProbe EXCEPT !.format = "rejected", !.pairs = pairs, !.text = DumpDict(pairs)]
CoerceFormats == {"coerce:" \o shape : shape \in CoerceShapes \cup {"value", "rejected"}}

\* every text of at most MaxLocateLen tokens among braces, a word, a fence
\* marker and a line break
LocateTokens == {LB, RB, WORD, FENCE, NL}
MaxLocateLen == 4
LocateTexts == UNION { [1..n -> LocateTokens] : n \in 0..MaxLocateLen }

LocateProbe(text) == [NoProbe EXCEPT !.format = "locate", !.text = text]

CandidatesProbe(cs) ==
    [NoProbe EXCEPT !.format = "candidates", !.candidates = cs]

Probes ==
    { TextProbe(format, pairs) : format \in TextFormats, pairs \in ProbePairs }
    \cup { TextProbe("json_odd", pairs) : pairs \in OddPairs }
    \cup { ResponseProbe(r) :
              r \in Responses \cup ThoughtResponses \cup SeveralSourceResponses }
    \cup { CandidatesProbe(cs) : cs \in CandidateLists }
    \cup { OffersProbe(offers) : offers \in OfferLists }
    \cup { LocateProbe(text) : text \in LocateTexts }
    \cup { TokenlessProbe(shape, pairs) :
              shape \in TokenlessShapes, pairs \in TokenlessPairs }
    \cup { CoerceProbe(shape, pairs) : shape \in CoerceShapes, pairs \in ShapePairs }
    \cup { CoerceProbe("rejected", pairs) : pairs \in RejectedPairs }
    \cup { ValueProbe(v) : v \in NonObjectValues }
    \cup { RejectedProbe(pairs) : pairs \in RejectedPairs }

\* the defaults of config.py and of strategize_swarm's arguments (temperature
\* in tenths)
DefaultSettings ==
    [ model_name |-> EmptyStr, swarm_model |-> S("gemini-3-flash"),
      gemini_model |-> S("gemini-2.5-flash"),
      swarm_retry_model |-> S("gemini-2.0-flash"), swarm_retry_count |-> 1,
      request |-> [max_tokens |-> 16000, temperature |-> 7] ]

ProbeInit ==
    /\ probe \in Probes
    /\ cfg = DefaultSettings
    /\ pc = "probe"
    /\ attempts = <<>>
    /\ attempt_index = 0
    /\ response = NoResponse
    /\ last_outcome = NoOutcome
    /\ last_exception = NoExc
    /\ result = NoResult
    /\ calls = <<>>
    /\ history = <<>>
    /\ NoCallsInFlight

\* _normalize_swarm_directive(text)
NormalizeText ==
    /\ pc = "probe"
    /\ probe.format \in TextFormats \cup {"json_odd", "rejected"} \cup TokenlessFormats
    /\ ~probe.done
    /\ probe' = [probe EXCEPT !.done = TRUE,
                              !.triple = NormalizeSwarmDirective(probe.text)]
    /\ UNCHANGED << elsewhere, cfg, pc, attempts, attempt_index, response, last_outcome,
                    last_exception, result, calls, history >>

\* _extract_response_candidates(response)
ExtractCandidates ==
    /\ pc = "probe"
    /\ probe.format = "response"
    /\ ~probe.done
    /\ probe' = [probe EXCEPT !.done = TRUE,
                              !.candidates = ExtractResponseCandidates(probe.response)]
    /\ UNCHANGED << elsewhere, cfg, pc, attempts, attempt_index, response, last_outcome,
                    last_exception, result, calls, history >>

\* _select_candidate_outcome(candidates)
SelectOutcome ==
    /\ pc = "probe"
    /\ probe.format = "candidates"
    /\ ~probe.done
    /\ probe' = [probe EXCEPT !.done = TRUE,
                              !.outcome = SelectCandidateOutcome(probe.candidates)]
    /\ UNCHANGED << elsewhere, cfg, pc, attempts, attempt_index, response, last_outcome,
                    last_exception, result, calls, history >>

\* _append_candidate called for each offer in turn on one candidate list
RECURSIVE AppendAll(_, _, _)
AppendAll(cs, offers, i) ==
    IF i > Len(offers) THEN cs
    ELSE AppendAll(AppendCandidate(cs, offers[i].source, offers[i].text), offers, i + 1)

AppendOffers ==
    /\ pc = "probe"
    /\ probe.format = "offers"
    /\ ~probe.done
    /\ probe' = [probe EXCEPT !.done = TRUE,
                              !.candidates = AppendAll(<<>>, probe.offers, 1)]
    /\ UNCHANGED << elsewhere, cfg, pc, attempts, attempt_index, response, last_outcome,
                    last_exception, result, calls, history >>

\* _extract_json_payload(raw_text)
LocatePayload ==
    /\ pc = "probe"
    /\ probe.format = "locate"
    /\ ~probe.done
    /\ probe' = [probe EXCEPT !.done = TRUE,
                              !.payload = ExtractJsonPayload(probe.text)]
    /\ UNCHANGED << elsewhere, cfg, pc, attempts, attempt_index, response, last_outcome,
                    last_exception, result, calls, history >>

\* _coerce_directive(parsed)
CoerceParsed ==
    /\ pc = "probe"
    /\ probe.format \in CoerceFormats
    /\ ~probe.done
    /\ probe' = [probe EXCEPT !.done = TRUE, !.coerced = CoerceDirective(probe.value)]
    /\ UNCHANGED << elsewhere, cfg, pc, attempts, attempt_index, response, last_outcome,
                    last_exception, result, calls, history >>

ProbeNext ==
    \/ NormalizeText
    \/ ExtractCandidates
    \/ SelectOutcome
    \/ AppendOffers
    \/ LocatePayload
    \/ CoerceParsed

ProbeSpec == ProbeInit /\ [][ProbeNext]_vars

----------------------------------------------------------------------------
(* Two strategize_swarm calls in flight on the one analyzer of get_analyzer  *)

CallIds == 1..2

\* the settings the analyzer is constructed with: a thinking retry model and a
\* non-thinking one
PairSettings ==
    { [ swarm_model |-> S("gemini-3-flash"), gemini_model |-> S("gemini-2.5-flash"),
        swarm_retry_model |-> m, swarm_retry_count |-> 1 ] :
      m \in {Str(TRUE, "Gemini-2.5-Pro"), S("gemini-1.5-pro")} }

\* the arguments of a call
PairArgs ==
    { [model_name |-> EmptyStr, request |-> [max_tokens |-> 16, temperature |-> 25]],
      [ model_name |-> S("gemini-1.5-pro"),
        request |-> [max_tokens |-> 16000, temperature |-> -5] ] }

\* what the oracle answers a call with: a valid directive, text without JSON
\* cut off by the token budget, the schema parse defect, an outage
PairAnswers ==
    { [raised |-> FALSE, response |-> r, exc |-> NoExc] :
        r \in {Plain(DumpDict(HoldPairs), "STOP"), Plain(<<WORD>>, "MAX_TOKENS")} }
    \cup { [raised |-> TRUE, response |-> NoResponse, exc |-> e] :
             e \in {Exc("TypeError", TRUE), Exc("ConnectionError", TRUE)} }

\* the local variables of a call that has not started
IdleFrame(args) ==
    [ pc |-> "idle", args |-> args, attempts |-> <<>>, attempt_index |-> 0,
      last_outcome |-> NoOutcome, result |-> NoResult, calls |-> <<>>,
      answers |-> <<>> ]

PairInit ==
    /\ analyzer \in { [created |-> FALSE, settings |-> st] : st \in PairSettings }
    /\ frames \in [CallIds -> {IdleFrame(a) : a \in PairArgs}]
    /\ heap = <<>>
    /\ cfg = DefaultSettings
    /\ pc = "pair"
    /\ attempts = <<>>
    /\ attempt_index = 0
    /\ response = NoResponse
    /\ last_outcome = NoOutcome
    /\ last_exception = NoExc
    /\ result = NoResult
    /\ calls = <<>>
    /\ history = <<>>
    /\ probe = NoProbe
    /\ BrokerIdle

\* self.settings and the arguments, as one call reads them
CfgOf(p) ==
    [ model_name |-> frames[p].args.model_name, request |-> frames[p].args.request,
      swarm_model |-> analyzer.settings.swarm_model,
      gemini_model |-> analyzer.settings.gemini_model,
      swarm_retry_model |-> analyzer.settings.swarm_retry_model,
      swarm_retry_count |-> analyzer.settings.swarm_retry_count ]

\* variant in which every call's attempt list is made of the same dicts
SharedObjects(h, n) == [i \in 1..n |-> i]
\* lines 224-239: the list and dict displays create n objects no one else holds
NewObjects(h, n) == [i \in 1..n |-> Len(h) + i]

\* the heap once the objects ids hold the values atts
Store(h, ids, atts) ==
    LET top == IF Len(ids) = 0 THEN 0 ELSE ids[Len(ids)] IN
    [ i \in 1..Max(Len(h), top) |->
        IF \E j \in 1..Len(ids) : ids[j] = i
        THEN atts[CHOOSE j \in 1..Len(ids) : ids[j] = i]
        ELSE h[i] ]

\* a call's attempt list as the call sees it
AttemptsOf(p) ==
    [i \in 1..Len(frames[p].attempts) |-> heap[frames[p].attempts[i]]]

\* lines 157 and 210-246: get_analyzer, then the attempt list is built
PairBegin(p) ==
    /\ frames[p].pc = "idle"
    /\ analyzer' = [analyzer EXCEPT !.created = TRUE]
    /\ LET atts == BuildAttempts(CfgOf(p))
           ids == NewObjects(heap, Len(atts))
       IN /\ heap' = Store(heap, ids, atts)
          /\ frames' = [frames EXCEPT ![p] =
                 [@ EXCEPT !.pc = "schema_call", !.attempts = ids,
                           !.attempt_index = 1]]
    /\ UNCHANGED << cfg, pc, attempts, attempt_index, response, last_outcome,
                    last_exception, result, calls, history, probe, brokerVars >>

\* the frame after attempt i ended without a valid directive: the next
\* attempt, or the forced hold of lines 392-412
Advance(f, atts, selected_model, outcome) ==
    IF f.attempt_index + 1 > Len(atts)
    THEN [f EXCEPT !.pc = "returned", !.last_outcome = outcome,
                   !.attempt_index = @ + 1,
                   !.result = ForcedHold(atts, selected_model, outcome)]
    ELSE [f EXCEPT !.pc = "schema_call", !.last_outcome = outcome,
                   !.attempt_index = @ + 1]

\* lines 251-390: one invocation of call p and the code that runs up to the
\* call's next invocation or its return
PairInvoke(p) ==
    /\ frames[p].pc \in {"schema_call", "no_schema_call"}
    /\ \E answer \in PairAnswers :
          LET c == CfgOf(p)
              atts == AttemptsOf(p)
              i == frames[p].attempt_index
              selected_model == SelectedModel(c)
              attempt_model == AttemptModel(atts[i], selected_model)
              use_schema == frames[p].pc = "schema_call"
              record ==
                  [attempt |-> i, model |-> attempt_model]
                  @@ GenerateConfig(atts[i].temperature,
                                    EffectiveMaxTokensForModel(attempt_model,
                                                               c.request.max_tokens),
                                    use_schema)
              f == [frames[p] EXCEPT !.calls = Append(@, record),
                                     !.answers = Append(@, answer)]
              exc == IF use_schema THEN TryBlockException(answer)
                     ELSE IF answer.raised THEN answer.exc ELSE NoExc
              outcome == SelectCandidateOutcome(ExtractResponseCandidates(answer.response))
              rescued == RescueOverride(atts, i, outcome, FinishReasons(answer.response))
          IN IF exc # NoExc
             THEN /\ frames' = [frames EXCEPT ![p] =
                        IF use_schema /\ IsSchemaParseNoneTextError(exc)
                        THEN [f EXCEPT !.pc = "no_schema_call"]
                        ELSE Advance(f, atts, selected_model, f.last_outcome)]
                  /\ UNCHANGED heap
             ELSE IF outcome.raised
             THEN /\ frames' = [frames EXCEPT ![p] = [f EXCEPT !.pc = "raised"]]
                  /\ UNCHANGED heap
             ELSE IF outcome.model_valid
             THEN /\ frames' = [frames EXCEPT ![p] =
                        [f EXCEPT !.pc = "returned", !.last_outcome = outcome,
                                  !.result = ValidResult(outcome, attempt_model,
                                                         selected_model)]]
                  /\ UNCHANGED heap
             ELSE /\ heap' = Store(heap, frames[p].attempts, rescued)
                  /\ frames' = [frames EXCEPT ![p] =
                        Advance(f, rescued, selected_model, outcome)]
    /\ UNCHANGED << analyzer, cfg, pc, attempts, attempt_index, response, last_outcome,
                    last_exception, result, calls, history, probe, brokerVars >>

PairNext == \E p \in CallIds : PairBegin(p) \/ PairInvoke(p)

PairSpec == PairInit /\ [][PairNext]_vars

----------------------------------------------------------------------------
(* The token broker (Auth-Broker/01-app/main.py): login and oauth_callback   *)

\* everything outside the token broker
serviceVars ==
    << cfg, pc, attempts, attempt_index, response, last_outcome, last_exception,
       result, calls, history, probe, analyzer, frames, heap >>

ServiceIdle ==
    /\ cfg = DefaultSettings
    /\ pc = "broker"
    /\ attempts = <<>>
    /\ attempt_index = 0
    /\ response = NoResponse
    /\ last_outcome = NoOutcome
    /\ last_exception = NoExc
    /\ result = NoResult
    /\ calls = <<>>
    /\ history = <<>>
    /\ probe = NoProbe
    /\ analyzer = NoAnalyzer
    /\ frames = <<>>
    /\ heap = <<>>

\* line 36
STATE_TTL_S == 600

\* the clock is followed up to MaxClock seconds
MaxClock == 1201
\* login flows started
MaxLogins == 1
\* oauth_callback requests received
MaxCallbacks == 1
\* refresh tokens the provider issues
MaxIssued == 3

\* a str is a sequence of one-character strings and of whole words that hold
\* no "."
DOT == "."

AppUserIds == { <<"a">>, <<"a", DOT, "b">> }

\* secrets.token_urlsafe(16): letters, digits, "-" and "_"
Nonces == { <<"n">> }

RECURSIVE Joined(_)
Joined(s) == IF s = <<>> THEN "" ELSE s[1] \o Joined(Tail(s))

\* hmac.new(key, msg, sha256).hexdigest()[:24] under the configured key: hex
\* digits only, taken to differ for different messages
Hmac(msg) == "hmac(" \o Joined(msg) \o ")"

\* lines 49-56
SignState(key_set, app_user_id, nonce) ==
    IF ~key_set
    THEN app_user_id \o <<DOT>> \o nonce \o <<DOT, "nosig">>
    ELSE app_user_id \o <<DOT>> \o nonce
             \o <<DOT, Hmac(app_user_id \o <<DOT>> \o nonce)>>

LeastOf(set) == CHOOSE i \in set : \A j \in set : i <= j

\* state.split(".", 2): the parts around the first two dots, <<>> when the
\* unpacking into three names raises ValueError
SplitState(state) ==
    LET dots == {i \in 1..Len(state) : state[i] = DOT} IN
    IF Cardinality(dots) < 2 THEN <<>>
    ELSE LET i1 == LeastOf(dots)
             i2 == LeastOf(dots \ {i1})
         IN << SubSeq(state, 1, i1 - 1), SubSeq(state, i1 + 1, i2 - 1),
               SubSeq(state, i2 + 1, Len(state)) >>

Verified(app_user_id) == [ok |-> TRUE, status |-> 200, app_user_id |-> app_user_id]
Refused(status) == [ok |-> FALSE, status |-> status, app_user_id |-> <<>>]

\* lines 58-70
VerifyState(key_set, state) ==
    LET parts == SplitState(state) IN
    IF parts = <<>> THEN Refused(400)
    ELSE IF key_set /\ parts[3] # <<Hmac(parts[1] \o <<DOT>> \o parts[2])>>
         THEN Refused(400)
         ELSE Verified(parts[1])

\* the state cookie a request carries
NoCookie == [kind |-> "none", exp |-> 0]
GarbageCookie == [kind |-> "garbage", exp |-> 0]
JsonCookie(exp) == [kind |-> "json", exp |-> exp]

\* lines 145-150: the exception raised inside the try block, "" for none
CookieCheckRaises(cookie, t) ==
    IF cookie.kind = "none" THEN ""
    ELSE IF cookie.kind = "garbage" THEN "JSONDecodeError"
    ELSE IF t > cookie.exp THEN "HTTPException"
    ELSE ""

\* line 151, except Exception: every one of them is an Exception
CaughtByExceptException(exc) ==
    exc \in {"JSONDecodeError", "HTTPException", "ValueError", "AttributeError"}

\* lines 144-153: whether the cookie check ends the request
CookieCheckRejects(cookie, t) ==
    LET exc == CookieCheckRaises(cookie, t) IN
    exc # "" /\ ~CaughtByExceptException(exc)

\* the authorization code a callback carries: none, one the provider does not
\* know, or the one the provider handed to the user who logged in as app user u
NoCode == [kind |-> "none", for |-> <<>>]
BadCode == [kind |-> "bad", for |-> <<>>]
GoodCode(u) == [kind |-> "good", for |-> u]

NoReply == [status |-> 0, refresh_token |-> 0, error |-> ""]
Reply(status, refresh_token, error) ==
    [status |-> status, refresh_token |-> refresh_token, error |-> error]

\* a Firestore document: refresh_token 0 is the field absent; relink_needed is
\* bookkeeping, not a field: an access-token request removed the refresh token
\* and no callback has stored one since
NoDoc == [exists |-> FALSE, refresh_token |-> 0, relink_needed |-> FALSE]

\* the provider: the refresh tokens it accepts and, for every token it ever
\* issued, the app user whose login it was issued to
NoTokens == [valid |-> {}, owner |-> <<>>]

\* a request: what it carried, where it stands, what it did
Request(kind, app_user_id, t) ==
    [ kind |-> kind, app_user_id |-> app_user_id, at |-> t, pc |-> "received",
      cookie |-> NoCookie, state |-> <<>>, code |-> NoCode, key_ok |-> TRUE,
      sent |-> 0, reply |-> NoReply, status |-> 0, contacted |-> FALSE,
      wrote |-> FALSE, store_failed |-> FALSE, after_invalidation |-> FALSE ]

Responded(r, status) == [r EXCEPT !.pc = "done", !.status = status]

CountOf(kind) == Cardinality({i \in 1..Len(reqs) : reqs[i].kind = kind})

LinkInit ==
    /\ broker_key \in BOOLEAN
    /\ now = 0
    /\ docs = [u \in AppUserIds |-> NoDoc]
    /\ whoop = NoTokens
    /\ logins = <<>>
    /\ reqs = <<>>
    /\ ServiceIdle

\* time passes: up to the lifetime of a state cookie, or just beyond it
Tick ==
    /\ \E d \in {STATE_TTL_S, STATE_TTL_S + 1} :
          /\ now + d <= MaxClock
          /\ now' = now + d
    /\ UNCHANGED << broker_key, docs, whoop, logins, reqs, serviceVars >>

\* lines 95-132 with WHOOP_CLIENT_ID and WHOOP_CLIENT_SECRET set: the redirect
\* carries the signed state, the cookie the expiry
Login ==
    /\ Len(logins) < MaxLogins
    /\ \E app_user_id \in AppUserIds, nonce \in Nonces :
          logins' = Append(logins,
              [ app_user_id |-> app_user_id, nonce |-> nonce,
                state |-> SignState(broker_key, app_user_id, nonce),
                cookie |-> JsonCookie(now + STATE_TTL_S) ])
    /\ UNCHANGED << broker_key, now, docs, whoop, reqs, serviceVars >>

\* lines 135-169: the request up to the token exchange it awaits
CallbackReceive(code, state, cookie) ==
    /\ CountOf("callback") < MaxCallbacks
    /\ LET verdict == VerifyState(broker_key, state)
           r == [Request("callback", verdict.app_user_id, now) EXCEPT
                    !.cookie = cookie, !.state = state, !.code = code]
       IN reqs' = Append(reqs,
              IF code.kind = "none" \/ state = <<>> THEN Responded(r, 400)
              ELSE IF CookieCheckRejects(cookie, now) THEN Responded(r, 400)
              ELSE IF ~verdict.ok THEN Responded(r, verdict.status)
              ELSE [r EXCEPT !.pc = "at_provider"])
    /\ UNCHANGED << broker_key, now, docs, whoop, logins, serviceVars >>

\* the provider serves the authorization_code grant
ProviderExchange(i) ==
    /\ reqs[i].kind = "callback"
    /\ reqs[i].pc = "at_provider"
    /\ IF reqs[i].code.kind = "good"
       THEN \E with_refresh \in BOOLEAN :
              IF with_refresh
              THEN /\ Len(whoop.owner) < MaxIssued
                   /\ LET t == Len(whoop.owner) + 1 IN
                      /\ whoop' = [valid |-> whoop.valid \cup {t},
                                   owner |-> Append(whoop.owner, reqs[i].code.for)]
                      /\ reqs' = [reqs EXCEPT ![i] =
                             [@ EXCEPT !.pc = "resume", !.contacted = TRUE,
                                       !.reply = Reply(200, t, "")]]
              ELSE /\ reqs' = [reqs EXCEPT ![i] =
                          [@ EXCEPT !.pc = "resume", !.contacted = TRUE,
                                    !.reply = Reply(200, 0, "")]]
                   /\ UNCHANGED whoop
       ELSE /\ reqs' = [reqs EXCEPT ![i] =
                   [@ EXCEPT !.pc = "resume", !.contacted = TRUE,
                             !.reply = Reply(400, 0, "invalid_request")]]
            /\ UNCHANGED whoop
    /\ UNCHANGED << broker_key, now, docs, logins, serviceVars >>

\* lines 171-197: raise_for_status, then the document is set with merge=True;
\* an exception of either reaches the handler of lines 80-89
CallbackResume(i) ==
    /\ reqs[i].kind = "callback"
    /\ reqs[i].pc = "resume"
    /\ IF reqs[i].reply.status >= 400 \/ reqs[i].reply.refresh_token = 0
       THEN /\ reqs' = [reqs EXCEPT ![i] = Responded(@, 500)]
            /\ UNCHANGED docs
       ELSE \E stored \in BOOLEAN :
              IF stored
              THEN /\ docs' = [docs EXCEPT ![reqs[i].app_user_id] =
                          [exists |-> TRUE,
                           refresh_token |-> reqs[i].reply.refresh_token,
                           relink_needed |-> FALSE]]
                   /\ reqs' = [reqs EXCEPT ![i] =
                          [Responded(@, 200) EXCEPT !.wrote = TRUE]]
              ELSE /\ reqs' = [reqs EXCEPT ![i] =
                          [Responded(@, 500) EXCEPT !.store_failed = TRUE]]
                   /\ UNCHANGED docs
    /\ UNCHANGED << broker_key, now, whoop, logins, serviceVars >>

\* what a browser or anyone else may send to /oauth/callback
CallbackCodes == {NoCode, BadCode} \cup {GoodCode(logins[l].app_user_id) : l \in 1..Len(logins)}
CallbackStates ==
    { <<>>, <<"x">>, <<"a", DOT, "n", DOT, "nosig">> }
    \cup {logins[l].state : l \in 1..Len(logins)}
CallbackCookies ==
    {NoCookie, GarbageCookie} \cup {logins[l].cookie : l \in 1..Len(logins)}

LinkNext ==
    \/ Tick
    \/ Login
    \/ \E code \in CallbackCodes, state \in CallbackStates, cookie \in CallbackCookies :
          CallbackReceive(code, state, cookie)
    \/ \E i \in 1..Len(reqs) : ProviderExchange(i)
    \/ \E i \in 1..Len(reqs) : CallbackResume(i)

LinkSpec == LinkInit /\ [][LinkNext]_vars

----------------------------------------------------------------------------
(* The token broker: access_token, for a user whose account is linked        *)

\* /access-token requests received
MaxAccess == 3

LinkedUser == <<"a">>

\* the user logged in once and the callback stored the provider's first token
TokenInit ==
    /\ broker_key \in BOOLEAN
    /\ now = 0
    /\ docs = [u \in AppUserIds |->
                 IF u = LinkedUser
                 THEN [exists |-> TRUE, refresh_token |-> 1, relink_needed |-> FALSE]
                 ELSE NoDoc]
    /\ whoop = [valid |-> {1}, owner |-> <<LinkedUser>>]
    /\ logins = << [ app_user_id |-> LinkedUser, nonce |-> <<"n">>,
                     state |-> SignState(broker_key, LinkedUser, <<"n">>),
                     cookie |-> JsonCookie(STATE_TTL_S) ] >>
    /\ reqs = <<>>
    /\ ServiceIdle

\* lines 72-78
RequireApiKeyRaises(key_set, key_ok) == key_set /\ ~key_ok

\* lines 199-229: the key check and the document read, up to the refresh the
\* request awaits
AccessReceive(app_user_id, key_ok) ==
    /\ CountOf("access") < MaxAccess
    /\ LET doc == docs[app_user_id]
           r == [Request("access", app_user_id, now) EXCEPT
                    !.key_ok = key_ok, !.after_invalidation = doc.relink_needed]
       IN reqs' = Append(reqs,
              IF RequireApiKeyRaises(broker_key, key_ok) THEN Responded(r, 401)
              ELSE IF ~doc.exists THEN Responded(r, 404)
              ELSE IF doc.refresh_token = 0 THEN Responded(r, 404)
              ELSE [r EXCEPT !.pc = "at_provider", !.sent = doc.refresh_token])
    /\ UNCHANGED << broker_key, now, docs, whoop, logins, serviceVars >>

\* the provider serves the refresh_token grant: a token it accepts is used up
\* and replaced, any other is refused with invalid_grant; or the provider is
\* out of service
ProviderRefresh(i) ==
    /\ reqs[i].kind = "access"
    /\ reqs[i].pc = "at_provider"
    /\ \/ /\ reqs[i].sent \in whoop.valid
          /\ Len(whoop.owner) < MaxIssued
          /\ LET t == Len(whoop.owner) + 1 IN
             /\ whoop' = [valid |-> (whoop.valid \ {reqs[i].sent}) \cup {t},
                          owner |-> Append(whoop.owner, whoop.owner[reqs[i].sent])]
             /\ reqs' = [reqs EXCEPT ![i] =
                    [@ EXCEPT !.pc = "resume", !.contacted = TRUE,
                              !.reply = Reply(200, t, "")]]
       \/ /\ reqs[i].sent \notin whoop.valid
          /\ reqs' = [reqs EXCEPT ![i] =
                 [@ EXCEPT !.pc = "resume", !.contacted = TRUE,
                           !.reply = Reply(400, 0, "invalid_grant")]]
          /\ UNCHANGED whoop
       \/ /\ reqs' = [reqs EXCEPT ![i] =
                 [@ EXCEPT !.pc = "resume", !.contacted = TRUE,
                           !.reply = Reply(503, 0, "unavailable")]]
          /\ UNCHANGED whoop
    /\ UNCHANGED << broker_key, now, docs, logins, serviceVars >>

\* the user withdraws the grant at the provider
ProviderRevoke ==
    /\ whoop.valid # {}
    /\ whoop' = [whoop EXCEPT !.valid = {}]
    /\ UNCHANGED << broker_key, now, docs, logins, reqs, serviceVars >>

\* lines 231-269: the provider's answer is handled; an exception of the
\* document update is swallowed (lines 245 and 265)
AccessResume(i) ==
    /\ reqs[i].kind = "access"
    /\ reqs[i].pc = "resume"
    /\ \E stored \in BOOLEAN :
          LET r == reqs[i]
              u == r.app_user_id
              rotated == r.reply.refresh_token # 0 /\ r.reply.refresh_token # r.sent
          IN IF r.reply.status >= 400
             THEN IF r.reply.error = "invalid_grant"
                  THEN /\ docs' = IF stored
                                  THEN [docs EXCEPT ![u] =
                                          [@ EXCEPT !.refresh_token = 0,
                                                    !.relink_needed = TRUE]]
                                  ELSE docs
                       /\ reqs' = [reqs EXCEPT ![i] =
                              [Responded(r, 401) EXCEPT !.wrote = stored,
                                                        !.store_failed = ~stored]]
                  ELSE /\ stored
                       /\ reqs' = [reqs EXCEPT ![i] = Responded(r, r.reply.status)]
                       /\ UNCHANGED docs
             ELSE /\ docs' = IF stored /\ rotated
                             THEN [docs EXCEPT ![u] =
                                     [@ EXCEPT !.refresh_token = r.reply.refresh_token]]
                             ELSE docs
                  /\ reqs' = [reqs EXCEPT ![i] =
                         [Responded(r, 200) EXCEPT !.wrote = stored,
                                                   !.store_failed = ~stored]]
    /\ UNCHANGED << broker_key, now, whoop, logins, serviceVars >>

TokenNext ==
    \/ \E key_ok \in (IF broker_key THEN BOOLEAN ELSE {TRUE}) :
          AccessReceive(LinkedUser, key_ok)
    \/ \E i \in 1..Len(reqs) : ProviderRefresh(i)
    \/ \E i \in 1..Len(reqs) : AccessResume(i)
    \/ ProviderRevoke
    \/ CallbackReceive(GoodCode(LinkedUser), logins[1].state, NoCookie)
    \/ \E i \in 1..Len(reqs) : ProviderExchange(i)
    \/ \E i \in 1..Len(reqs) : CallbackResume(i)

TokenSpec == TokenInit /\ [][TokenNext]_vars

----------------------------------------------------------------------------
(* Properties *)

\* the members of a raw_text read back as JSON (none when it is not an object)
MembersOf(json) == IF json.ok /\ json.v.t = "obj" THEN json.v.o ELSE <<>>
ResultFields == MembersOf(JsonLoads(result.raw_text))
MemberKeys(o) == [i \in 1..Len(o) |-> o[i].k]

\* the canonical hold, written out
CanonicalHoldText ==
    DumpDict(<< P("order", StrV("hold")), P("target_zone", StrV("")),
                P("squad_size", IntV(0)), P("priority", StrV("")),
                P("from_zone", StrV("")), P("to_zone", StrV("")),
                P("count", IntV(0)), P("decoy_zone", StrV("")),
                P("decoy_size", IntV(0)), P("real_target_zone", StrV("")),
                P("real_size", IntV(0)),
                P("reasoning",
                  StrV("Comms degraded. Holding sectors and observing target movement."))
             >>)

Returned == pc = "returned"
SomeInvocationRaised == \E i \in 1..Len(history) : history[i].failed
LastCall == calls[Len(calls)]

\* C1: whenever strategize_swarm returns, raw_text is a non-empty compact JSON
\* object with exactly the twelve directive keys in order, an order among the
\* five recognized ones, four size/count fields that are integers >= 0 and a
\* non-empty reasoning string.
DirectiveMembers(o) ==
    /\ MemberKeys(o) = DirectiveKeys
    /\ Get(o, "order").t = "str"
    /\ Get(o, "order").s \in {S(w) : w \in Orders}
    /\ \A k \in IntKeys : Get(o, k).t = "int" /\ Get(o, k).n >= 0
    /\ Get(o, "reasoning").t = "str"
    /\ Get(o, "reasoning").s.w # ""
CompactText(text) ==
    /\ text # <<>>
    /\ \A i \in 1..Len(text) : ~IsWs(text[i])
C1_RawTextIsDirectiveJson ==
    Returned =>
        /\ CompactText(result.raw_text)
        /\ DirectiveMembers(ResultFields)

\* a feint whose sizes were written as "7" and true, returned by the retry
\* attempt after the primary invocation raised
FeintOfSeven(o) ==
    /\ DirectiveMembers(o)
    /\ Get(o, "order").s = S("feint")
    /\ Get(o, "decoy_size").n = 7
C1_Witness ==
    /\ Returned
    /\ Len(history) = 2
    /\ history[1].failed
    /\ history[2].valid
    /\ FeintOfSeven(ResultFields)

\* C2: once an oracle invocation has raised in some attempt, the call does not
\* end with an exception: it returns a result.
C2_CallReturnsAfterInvocationError ==
    SomeInvocationRaised => pc # "raised"

\* C3: processing a returned response never raises, whatever JSON values the
\* located object carries.
C3_ProcessingNeverRaises == pc # "raised"

\* the rule of each order, read off the returned raw_text
ZoneOf(o, k) == Get(o, k).s
SizeOf(o, k) == Get(o, k).n
WellFormedForOrder(o) ==
    /\ Get(o, "order").s.w \in {"reinforce", "recapture"} =>
           ZoneOf(o, "target_zone").w # "" /\ SizeOf(o, "squad_size") >= 1
    /\ Get(o, "order").s.w = "redistribute" =>
           /\ ZoneOf(o, "from_zone").w # ""
           /\ ZoneOf(o, "to_zone").w # ""
           /\ ZoneOf(o, "from_zone") # ZoneOf(o, "to_zone")
           /\ SizeOf(o, "count") >= 1
    /\ Get(o, "order").s.w = "feint" =>
           /\ ZoneOf(o, "decoy_zone").w # ""
           /\ ZoneOf(o, "real_target_zone").w # ""
           /\ ZoneOf(o, "decoy_zone") # ZoneOf(o, "real_target_zone")
           /\ SizeOf(o, "decoy_size") >= 1
           /\ SizeOf(o, "real_size") >= 1

\* C4: every directive strategize_swarm returns satisfies the rule of its order.
C4_ReturnedDirectiveWellFormed == Returned => WellFormedForOrder(ResultFields)

AllAttemptsSpentInvalid ==
    /\ Len(attempts) >= 1
    /\ Len(history) = Len(attempts)
    /\ \A i \in 1..Len(history) : ~history[i].valid

\* C5: when every attempt has ended failed or with an invalid outcome, the call
\* ends by returning exactly the canonical hold JSON, tagged with the model the
\* last attempt was invoked with (after any rescue override).
C5_AllInvalidGivesCanonicalHold ==
    AllAttemptsSpentInvalid =>
        /\ pc \in {"finish", "returned"}
        /\ Returned =>
               /\ result.raw_text = CanonicalHoldText
               /\ LastCall.attempt = Len(attempts)
               /\ result.model = LastCall.model
               /\ result.model = AttemptModel(attempts[Len(attempts)], SelectedModel(cfg))

\* the retry attempt ended with a partially recovered, invalid directive and
\* the canonical hold was returned instead of it
C5_Witness ==
    /\ Returned
    /\ Len(history) = 2
    /\ history[1].failed
    /\ history[2].status = "loose_tokens"
    /\ ~history[2].valid
    /\ history[2].json # CanonicalHoldText
    /\ result.raw_text = CanonicalHoldText

AttemptNames == [i \in 1..Len(attempts) |-> attempts[i].name]

\* C7 as stated: the attempt list is [primary] when the configured retry count
\* is zero and [primary, retry] when it is nonzero (negative included), never
\* longer.
C7_RetryWheneverNonzero ==
    pc # "start" =>
        /\ cfg.swarm_retry_count = 0 => AttemptNames = <<"primary">>
        /\ cfg.swarm_retry_count # 0 => AttemptNames = <<"primary", "retry">>
        /\ Len(attempts) <= 2

\* C7 amended: the attempt list is [primary] when the configured retry count is
\* zero or negative and [primary, retry] when it is positive, of any magnitude;
\* it never holds more than two attempts and no attempt is run twice.
C7_RetryOnlyWhenPositive ==
    pc # "start" =>
        /\ cfg.swarm_retry_count <= 0 => AttemptNames = <<"primary">>
        /\ cfg.swarm_retry_count > 0 => AttemptNames = <<"primary", "retry">>
        /\ Len(attempts) <= 2
        /\ Len(history) <= Len(attempts)
        /\ attempt_index <= Len(attempts) + 1

\* a negative retry count: the call ran the primary attempt alone
C7_Witness ==
    /\ Returned
    /\ cfg.swarm_retry_count < 0
    /\ AttemptNames = <<"primary">>
    /\ Len(history) = 1

\* attempt k ended no_json_object with MAX_TOKENS reported, and is not the last
RescueDue(k) ==
    /\ ~history[k].failed
    /\ history[k].status = "no_json_object"
    /\ history[k].max_tokens
    /\ history[k].attempt < Len(attempts)

\* C8 as stated: after a non-final attempt that ended no_json_object with
\* MAX_TOKENS reported, the next attempt is invoked with gemini-2.0-flash at
\* temperature 0, whatever retry model was configured.
C8_RescueAlwaysForcesRescueModel ==
    \A k \in 1..Len(history) : \A i \in 1..Len(calls) :
        (RescueDue(k) /\ calls[i].attempt = history[k].attempt + 1) =>
            /\ calls[i].model = S("gemini-2.0-flash")
            /\ calls[i].temperature = 0

\* the model the retry attempt is configured with, as line 245 resolves it
ConfiguredRetryModel ==
    AttemptModel(Attempt("retry", RetryModel(cfg), 0), SelectedModel(cfg))

\* C8 amended: after such an attempt the next attempt is invoked at
\* temperature 0, with gemini-2.0-flash when the configured retry model is a
\* likely-thinking model and with the configured retry model otherwise (the
\* primary's model when the configured string is blank).
C8_RescueReplacesThinkingRetryModel ==
    \A k \in 1..Len(history) : \A i \in 1..Len(calls) :
        (RescueDue(k) /\ calls[i].attempt = history[k].attempt + 1) =>
            /\ calls[i].temperature = 0
            /\ calls[i].model = IF IsLikelyThinkingModel(RetryModel(cfg))
                                THEN S("gemini-2.0-flash")
                                ELSE ConfiguredRetryModel

\* the retry was configured with a thinking model and invoked with the rescue
\* model after a primary that ended no_json_object on MAX_TOKENS
C8_Witness ==
    /\ Len(history) >= 1
    /\ RescueDue(1)
    /\ IsLikelyThinkingModel(cfg.swarm_retry_model)
    /\ Len(calls) >= 2
    /\ LastCall.attempt = 2
    /\ LastCall.model = S("gemini-2.0-flash")
    /\ LastCall.temperature = 0

\* C9: when the primary response reports MAX_TOKENS and carries no text at all,
\* a retry attempt configured with a thinking model is invoked with the rescue
\* model instead.
C9_EmptyMaxTokensForcesRescue ==
    \A i \in 1..Len(calls) :
        ( /\ Len(history) >= 1
          /\ ~history[1].failed
          /\ history[1].nothing
          /\ history[1].max_tokens
          /\ IsLikelyThinkingModel(RetryModel(cfg))
          /\ calls[i].attempt = 2 ) =>
            calls[i].model = S("gemini-2.0-flash")

\* C10: an outcome whose status is loose_tokens or json_decode_loose_tokens is
\* never valid, so no attempt returns a regex-recovered directive.
C10_RecoveredNeverValid ==
    \A i \in 1..Len(history) :
        history[i].status \in {"loose_tokens", "json_decode_loose_tokens"} =>
            ~history[i].valid

\* the invocations of an attempt and what the call recorded for it
CallsOf(a) == {i \in 1..Len(calls) : calls[i].attempt = a}
RecordsOf(a) == {k \in 1..Len(history) : history[k].attempt = a}
SchemaParseDefect == Exc("TypeError", TRUE)
SchemaCallRaised(i) == calls[i].use_schema /\ ~calls[i].returned
\* the loop has gone on to the attempt after a, or past the last one
MovedPast(a) ==
    /\ attempt_index = a + 1 \/ CallsOf(a + 1) # {}
    /\ IF a < Len(attempts)
       THEN (pc = "schema_call" /\ attempt_index = a + 1) \/ CallsOf(a + 1) # {}
       ELSE /\ pc \in {"finish", "returned"}
            /\ Returned => result.raw_text = CanonicalHoldText

\* C18: when a schema-constrained invocation raises the known SDK defect, the
\* same attempt is invoked exactly once more, with the same model, temperature
\* and token budget and without the schema; when that invocation raises too the
\* attempt is failed without a third invocation, and the attempt after it, if
\* the list has one, is still run.
C18_DefectGetsOneSchemaFreeRecall ==
    \A i \in 1..Len(calls) :
        (SchemaCallRaised(i) /\ calls[i].exc = SchemaParseDefect) =>
            IF i = Len(calls)
            THEN pc = "no_schema_call" /\ attempt_index = calls[i].attempt
            ELSE /\ calls[i + 1] = [calls[i] EXCEPT !.use_schema = FALSE,
                                                    !.returned = calls[i + 1].returned,
                                                    !.exc = calls[i + 1].exc]
                 /\ CallsOf(calls[i].attempt) = {i, i + 1}
                 /\ Len(attempts) = Len(BuildAttempts(cfg))
                 /\ ~calls[i + 1].returned =>
                        /\ \E k \in RecordsOf(calls[i].attempt) : history[k].failed
                        /\ MovedPast(calls[i].attempt)

\* the primary attempt met the defect, its schema-free invocation raised as
\* well, and the retry attempt was invoked with the schema afterwards
C18_Witness ==
    /\ Len(calls) = 3
    /\ calls[1].exc = SchemaParseDefect
    /\ calls[1].use_schema
    /\ ~calls[2].use_schema
    /\ ~calls[2].returned
    /\ calls[2].attempt = 1
    /\ calls[3].attempt = 2
    /\ calls[3].use_schema

\* C19: when a schema-constrained invocation raises anything but the known
\* SDK defect, the attempt is failed with that single invocation, no outcome
\* and no rescue override, and the loop goes on to the next attempt or to
\* the canonical hold.
C19_OtherExceptionFailsTheAttempt ==
    \A i \in 1..Len(calls) :
        (SchemaCallRaised(i) /\ calls[i].exc # SchemaParseDefect) =>
            /\ CallsOf(calls[i].attempt) = {i}
            /\ RecordsOf(calls[i].attempt) # {}
            /\ \A k \in RecordsOf(calls[i].attempt) : history[k].failed
            /\ calls[i].attempt = 1 => attempts = BuildAttempts(cfg)
            /\ MovedPast(calls[i].attempt)

\* the primary invocation raised a TypeError with another message and the
\* retry attempt's answer was returned
C19_Witness ==
    /\ Returned
    /\ Len(calls) = 2
    /\ calls[1].exc = Exc("TypeError", FALSE)
    /\ ~calls[1].returned
    /\ calls[2].attempt = 2
    /\ Len(history) = 2
    /\ history[1].failed
    /\ history[2].valid

\* C20: an invocation that returned a response gives its attempt exactly one
\* outcome: the attempt is never recorded as failed and never invoked again,
\* whatever the accessors of the response do.
C20_ReturnedResponseGivesOneOutcome ==
    \A i \in 1..Len(calls) :
        calls[i].returned =>
            /\ \A k \in RecordsOf(calls[i].attempt) : ~history[k].failed
            /\ \A j \in CallsOf(calls[i].attempt) : j <= i
            /\ (attempt_index > calls[i].attempt \/ Returned) =>
                   Cardinality(RecordsOf(calls[i].attempt)) = 1

\* the names of the vocabulary that start with gemini-3 or gemini-2.5
ThinkingNames == {"gemini-3-flash", "gemini-2.5-flash", "gemini-2.5-pro"}
NamedThinking(model) == Lower(Strip(model)).w \in ThinkingNames
LargerOf(a, b) == IF a >= b THEN a ELSE b

\* C28: every invocation carries max_output_tokens = max(1024, requested) when
\* the model it is invoked with is a likely-thinking model and max(32,
\* requested) otherwise, and the invocations of one attempt carry the same
\* budget.
C28_BudgetFollowsInvokedModel ==
    /\ \A i \in 1..Len(calls) :
           calls[i].max_output_tokens =
               IF NamedThinking(calls[i].model)
               THEN LargerOf(1024, cfg.request.max_tokens)
               ELSE LargerOf(32, cfg.request.max_tokens)
    /\ \A i, j \in 1..Len(calls) :
           calls[i].attempt = calls[j].attempt =>
               calls[i].max_output_tokens = calls[j].max_output_tokens

\* 16 tokens requested: the thinking primary got 1024, the retry, overridden
\* to the rescue model, got 32, in its schema call and in its re-call
C28_Witness ==
    /\ cfg.request.max_tokens = 16
    /\ Len(calls) = 3
    /\ calls[1].max_output_tokens = 1024
    /\ NamedThinking(cfg.swarm_retry_model)
    /\ calls[2].attempt = 2
    /\ calls[2].model = S("gemini-2.0-flash")
    /\ calls[2].max_output_tokens = 32
    /\ calls[3].attempt = 2
    /\ ~calls[3].use_schema
    /\ calls[3].max_output_tokens = 32

\* the primary attempt ended no_json_object with MAX_TOKENS reported
PrimaryCallsForRescue == \E k \in 1..Len(history) : history[k].attempt = 1 /\ RescueDue(k)

\* the number of attempts and the primary attempt's configuration never
\* change, and unless the primary's outcome is no_json_object with MAX_TOKENS
\* the retry attempt stays as built and is invoked with retry_model at
\* temperature 0
AttemptsChangeOnlyByRescue(retry_model) ==
    pc # "start" =>
        /\ Len(attempts) = Len(BuildAttempts(cfg))
        /\ attempts[1] = BuildAttempts(cfg)[1]
        /\ \A i \in 1..Len(calls) :
               calls[i].attempt = 1 =>
                   /\ calls[i].model = SelectedModel(cfg)
                   /\ calls[i].temperature = ClampTemperature(cfg.request.temperature)
        /\ ~PrimaryCallsForRescue =>
               /\ attempts = BuildAttempts(cfg)
               /\ \A i \in 1..Len(calls) :
                      calls[i].attempt = 2 =>
                          /\ calls[i].model = retry_model
                          /\ calls[i].temperature = 0

\* C29: the attempt list is changed only by the rescue heuristic: unless the
\* primary's outcome is no_json_object with MAX_TOKENS, the retry attempt is
\* invoked with the configured retry model (the trimmed setting, or the
\* default of line 211 when the setting is empty) at temperature 0, whatever
\* the primary attempt produced, and the primary's configuration and the
\* number of attempts never change.
C29_RetryInvokedWithConfiguredModel ==
    AttemptsChangeOnlyByRescue(Strip(RetryModel(cfg)))

\* C30: after an attempt that ended no_json_object with MAX_TOKENS reported,
\* the next attempt is never invoked with a likely-thinking model and is
\* invoked at temperature 0, for every primary and every retry model string.
C30_NoThinkingModelAfterRescue ==
    \A k \in 1..Len(history) : \A i \in 1..Len(calls) :
        (RescueDue(k) /\ calls[i].attempt = history[k].attempt + 1) =>
            /\ ~NamedThinking(calls[i].model)
            /\ calls[i].temperature = 0

----------------------------------------------------------------------------
(* Properties of the functions applied on their own *)

Probed(formats) == probe.done /\ probe.format \in formats
OrderToken == probe.pairs[1].v.s.w

\* the value written for a key, or the default of the key's type
RECURSIVE Supplied(_, _, _)
Supplied(pairs, key, i) ==
    IF i > Len(pairs)
    THEN IF key \in IntKeys THEN IntV(0) ELSE StrV("")
    ELSE IF pairs[i].k = key THEN pairs[i].v ELSE Supplied(pairs, key, i + 1)

\* the twelve-key JSON holding the written values and defaults elsewhere
ExpectedJson(pairs) ==
    DumpDict([i \in 1..Len(DirectiveKeys) |->
                 P(DirectiveKeys[i], Supplied(pairs, DirectiveKeys[i], 1))])

RequiredZones(order) ==
    CASE order \in {"reinforce", "recapture"} -> {"target_zone"}
      [] order = "redistribute" -> {"from_zone", "to_zone"}
      [] order = "feint" -> {"decoy_zone", "real_target_zone"}
      [] OTHER -> {}
RequiredSizes(order) ==
    CASE order \in {"reinforce", "recapture"} -> {"squad_size"}
      [] order = "redistribute" -> {"count"}
      [] order = "feint" -> {"decoy_size", "real_size"}
      [] OTHER -> {}

\* some required field of the order is left out, empty or zero
LacksRequired(pairs, order) ==
    \/ \E k \in RequiredZones(order) : Supplied(pairs, k, 1).s.w = ""
    \/ \E k \in RequiredSizes(order) : Supplied(pairs, k, 1).n = 0

\* the order is recognized and its required fields are written with valid values
MinimalValid(pairs, order) ==
    /\ order \in Orders
    /\ ~LacksRequired(pairs, order)
    /\ \A j, k \in RequiredZones(order) :
           j # k => Supplied(pairs, j, 1) # Supplied(pairs, k, 1)

JsonLikeFormats == {"json", "truncated", "trailing_comma"}
ProseFormats == {"prose", "prose_open_brace", "prose_braces"}
FenceFormats ==
    { "fence_nl", "fence_tag_nl", "fence_bare", "fence_tag_bare", "fence_close_nl",
      "fence_open_nl" }

\* C11: a text whose order token is not a recognized order, be it well-formed
\* JSON, malformed JSON or prose, normalizes to the canonical hold with
\* is_valid = false.
C11_UnrecognizedOrderIsInvalidHold ==
    (Probed(JsonLikeFormats \cup ProseFormats) /\ OrderToken \notin Orders) =>
        /\ probe.triple.json = CanonicalHoldText
        /\ ~probe.triple.valid

\* C12: a JSON directive of reinforce, recapture, redistribute or feint that
\* lacks a required field normalizes to is_valid = false, status
\* directive_shape_invalid, with the written fields preserved.
C12_IncompleteDirectiveIsShapeInvalid ==
    ( /\ Probed({"json"})
      /\ OrderToken \in {"reinforce", "recapture", "redistribute", "feint"}
      /\ LacksRequired(probe.pairs, OrderToken) ) =>
        /\ ~probe.triple.valid
        /\ probe.triple.status = "directive_shape_invalid"
        /\ probe.triple.json = ExpectedJson(probe.pairs)

\* C13: a minimal JSON payload with a recognized order, that order's required
\* fields at valid values and a reasoning normalizes to is_valid = true, status
\* model_valid, carrying those values and defaults in every other field.
C13_MinimalPayloadIsModelValid ==
    (Probed({"json"}) /\ MinimalValid(probe.pairs, OrderToken)) =>
        /\ probe.triple.valid
        /\ probe.triple.status = "model_valid"
        /\ ~probe.triple.raised
        /\ probe.triple.json = ExpectedJson(probe.pairs)

\* a minimal feint with two distinct zones and both sizes at the largest value
C13_Witness ==
    /\ Probed({"json"})
    /\ OrderToken = "feint"
    /\ MinimalValid(probe.pairs, OrderToken)
    /\ Supplied(probe.pairs, "decoy_size", 1).n = MaxSize
    /\ Supplied(probe.pairs, "real_size", 1).n = MaxSize
    /\ probe.triple.status = "model_valid"

OpeningLineFormats == FenceFormats \ {"fence_close_nl"}
OffersNonReasoning(r) ==
    \/ r.text.kind = "text" /\ StripText(r.text.toks) # <<>>
    \/ r.parsed.kind # "none"
    \/ /\ ~r.cands_raises
       /\ \E i \in 1..Len(r.cands) : \E j \in 1..Len(r.cands[i].parts) :
              \/ /\ ~r.cands[i].parts[j].thought
                 /\ StripText(r.cands[i].parts[j].text) # <<>>
              \/ r.cands[i].parts[j].fc.kind # "none"

CarriesThought(text) == \E i \in 1..Len(text) : text[i] = THINK

\* C16: unless the response offers no non-reasoning candidate at all, no
\* extracted candidate text includes text of a part flagged thought.
C16_NoThoughtTextAmongCandidates ==
    (Probed({"response"}) /\ OffersNonReasoning(probe.response)) =>
        \A i \in 1..Len(probe.candidates) : ~CarriesThought(probe.candidates[i].text)

\* C17: normalizing the normalized_json of a model_valid outcome again gives
\* the same triple, and the JSON read back and serialized again is the same
\* text.
C17_NormalizationIdempotent ==
    (probe.done /\ probe.format # "response" /\ probe.triple.status = "model_valid") =>
        /\ NormalizeSwarmDirective(probe.triple.json) = probe.triple
        /\ DumpDict(MembersOf(JsonLoads(probe.triple.json))) = probe.triple.json

\* a feint written with a string size, a boolean size and a capitalised zone
C17_Witness ==
    /\ Probed({"json_odd"})
    /\ OrderToken = "FEINT"
    /\ probe.triple.status = "model_valid"
    /\ probe.triple.json # DumpDict(probe.pairs)

\* the outcome the ranking rule names for candidates cs normalized as ns
FirstOf(idxs) == CHOOSE i \in idxs : \A j \in idxs : i <= j
RuleOutcome(cs, ns) ==
    LET valid == {i \in 1..Len(cs) : ns[i].valid}
        recoverable ==
            {i \in 1..Len(cs) : ns[i].status \in {"loose_tokens", "json_decode_loose_tokens"}}
        pick == IF valid # {} THEN FirstOf(valid)
                ELSE IF recoverable # {} THEN FirstOf(recoverable)
                ELSE 1
    IN IF cs = <<>>
       THEN [source |-> "<none>", raw |-> <<>>, status |-> "no_candidates",
             model_valid |-> FALSE, normalized_json |-> CanonicalHoldText,
             raised |-> FALSE]
       ELSE [source |-> cs[pick].source, raw |-> cs[pick].text,
             status |-> ns[pick].status, model_valid |-> ns[pick].valid,
             normalized_json |-> ns[pick].json, raised |-> FALSE]

\* C21: for every candidate list _select_candidate_outcome returns the outcome
\* of the first valid candidate, else of the first candidate recovered from
\* loose tokens, else of the first candidate, and the synthetic no_candidates
\* outcome with the canonical hold only for the empty list.
C21_RankerReturnsByRule ==
    Probed({"candidates"}) =>
        probe.outcome = RuleOutcome(probe.candidates, NormalizeEach(probe.candidates))

\* the place of a source label in the stated priority order: 1 the text
\* accessor, 2 the pre-parsed object, 3 a part's text, 4 the merged
\* non-reasoning parts, 5 function-call arguments, 6 the merged text of all parts
CandidatePrefix(ci) == "candidate[" \o ToString(ci - 1) \o "]"
StatedRankIn(r, ci, source) ==
    LET parts == 1..Len(r.cands[ci].parts) IN
    IF \E pi \in parts : source = PartSource(ci, pi) THEN 3
    ELSE IF source = CandidatePrefix(ci) \o ".parts_merged" THEN 4
    ELSE IF \E pi \in parts : source = PartSource(ci, pi) \o ".function_call.args" THEN 5
    ELSE IF source = CandidatePrefix(ci) \o ".all_parts_merged" THEN 6
    ELSE 0
\* the response-candidate a label belongs to, 0 for the response's own accessors
GroupOf(r, source) ==
    IF source \in {"response.text", "response.parsed"} THEN 0
    ELSE CHOOSE ci \in 1..Len(r.cands) : StatedRankIn(r, ci, source) # 0
StatedRank(r, source) ==
    IF source = "response.text" THEN 1
    ELSE IF source = "response.parsed" THEN 2
    ELSE StatedRankIn(r, GroupOf(r, source), source)

\* C22: the extractor's output keeps the stated priority order: the response's
\* accessors come first, and among the candidates of one response-candidate a
\* lower-priority source never precedes a higher-priority one.
C22_CandidatesInStatedPriorityOrder ==
    Probed({"response"}) =>
        \A i, j \in 1..Len(probe.candidates) :
            i < j =>
                LET a == probe.candidates[i].source
                    b == probe.candidates[j].source
                IN /\ GroupOf(probe.response, b) = 0 => GroupOf(probe.response, a) = 0
                   /\ GroupOf(probe.response, a) = GroupOf(probe.response, b) =>
                          StatedRank(probe.response, a) <= StatedRank(probe.response, b)

\* the offers whose trimmed text is a candidate's text
OffersOf(offers, text) == {i \in 1..Len(offers) : StripText(offers[i].text) = text}
NoBlankNoDuplicate(cs) ==
    /\ \A k \in 1..Len(cs) :
           /\ cs[k].text # <<>>
           /\ ~IsWs(cs[k].text[1])
           /\ ~IsWs(cs[k].text[Len(cs[k].text)])
    /\ \A k, l \in 1..Len(cs) : k # l => cs[k].text # cs[l].text

\* C23: after any sequence of _append_candidate calls the list holds no empty
\* or blank text and no trimmed text twice; every non-blank offer is kept once,
\* under the label of the first source that offered it, and the candidates
\* stand in the order of their first offers.
C23_AppendKeepsFirstOfferOnce ==
    /\ Probed({"response"}) => NoBlankNoDuplicate(probe.candidates)
    /\ Probed({"offers"}) =>
           /\ NoBlankNoDuplicate(probe.candidates)
           /\ \A i \in 1..Len(probe.offers) :
                  StripText(probe.offers[i].text) # <<>> =>
                      \E k \in 1..Len(probe.candidates) :
                          probe.candidates[k].text = StripText(probe.offers[i].text)
           /\ \A k \in 1..Len(probe.candidates) :
                  /\ OffersOf(probe.offers, probe.candidates[k].text) # {}
                  /\ probe.candidates[k].source =
                         probe.offers[FirstOf(OffersOf(probe.offers,
                                                       probe.candidates[k].text))].source
           /\ \A k, l \in 1..Len(probe.candidates) :
                  k < l => FirstOf(OffersOf(probe.offers, probe.candidates[k].text))
                           < FirstOf(OffersOf(probe.offers, probe.candidates[l].text))

\* a text offered with surrounding whitespace, a blank offer, then the same
\* text again from a later source: one candidate, labelled by the first source
C23_Witness ==
    /\ Probed({"offers"})
    /\ Len(probe.offers) = 3
    /\ probe.offers[1].text = <<SP, WORD, NL>>
    /\ probe.offers[2].text = <<SP>>
    /\ probe.offers[3].text = <<WORD>>
    /\ probe.candidates = <<[source |-> "offer[0]", text |-> <<WORD>>]>>

\* the brace depth after the first i tokens of a text
BraceDepth(text, i) ==
    Cardinality({j \in 1..i : text[j].c = "{"}) - Cardinality({j \in 1..i : text[j].c = "}"})
\* the depth returns to zero at the last token and not earlier
BalancedSpan(span) ==
    /\ span # <<>>
    /\ BraceDepth(span, Len(span)) = 0
    /\ \A i \in 1..(Len(span) - 1) : BraceDepth(span, i) > 0
\* the located payload of a text t whose first brace is at start
LocatedAsStated(t, start, payload) ==
    IF payload.found
    THEN /\ start # 0
         /\ start + Len(payload.text) - 1 <= Len(t)
         /\ payload.text = SubSeq(t, start, start + Len(payload.text) - 1)
         /\ BalancedSpan(payload.text)
    ELSE \/ start = 0
         \/ \A last \in start..Len(t) : ~BalancedSpan(SubSeq(t, start, last))

\* C24: a located payload begins at the first brace of the fence-stripped text
\* and is the span closing where the brace depth first returns to zero; no
\* payload is located only when that text has no opening brace or no balanced
\* span from its first one.
C24_PayloadIsFirstBalancedSpan ==
    Probed({"locate"}) =>
        LocatedAsStated(StripFences(StripText(probe.text)),
                        FindTok(StripFences(StripText(probe.text)), "{", 1),
                        probe.payload)

\* a triple whose status respects the stage the text reached: located says a
\* payload was located, parses that json.loads accepted it
StatusFollowsStage(triple, located, parses) ==
    /\ triple.status = "loose_tokens" => ~located
    /\ triple.status = "json_decode_loose_tokens" => located /\ ~parses
    /\ triple.status = "no_json_object" => ~located
    /\ triple.status = "json_decode_failed" => located /\ ~parses
    /\ parses => triple.status \in {"model_valid", "directive_shape_invalid", "raised"}
StageOf(triple, payload) ==
    StatusFollowsStage(triple, payload.found,
                       payload.found /\ JsonLoads(payload.text).ok)
CanonicalHoldAs(status) == Normalized(CanonicalHoldText, FALSE, status)

\* C25: a text with no locatable object and no order token gives the canonical
\* hold with no_json_object; one with a located object that does not parse and
\* no order token gives it with json_decode_failed; loose_tokens occurs only
\* without a located object, json_decode_loose_tokens only with a located
\* object that does not parse, and a text whose located object parses is never
\* recovered from loose tokens.
C25_FailureStatusFollowsStage ==
    /\ Probed({"no_token:prose", "no_token:truncated", "no_token:prose_open_brace"}) =>
           probe.triple = CanonicalHoldAs("no_json_object")
    /\ Probed({"no_token:trailing_comma", "no_token:prose_braces"}) =>
           probe.triple = CanonicalHoldAs("json_decode_failed")
    /\ Probed(TextFormats \cup {"json_odd"} \cup TokenlessFormats) =>
           StageOf(probe.triple, ExtractJsonPayload(probe.text))

\* prose about a zone and a size behind a brace-delimited word
C25_Witness ==
    /\ Probed({"no_token:prose_braces"})
    /\ probe.pairs[1].k = "target_zone"
    /\ probe.triple = CanonicalHoldAs("json_decode_failed")

\* C26: the nested object, the nested object with the reasoning beside it, the
\* object naming the order under a string directive key, and the object with
\* both keys (the order key deciding) coerce to the same result as the flat
\* object of the same order and fields.
C26_ShapesCoerceAlike ==
    /\ Probed({"coerce:" \o shape : shape \in CoerceShapes}) =>
           probe.coerced = CoerceDirective(ObjV(probe.pairs))
    /\ (Probed({"coerce:nested_envelope"}) /\ probe.coerced.kind = "ok") =>
           probe.coerced.d.reasoning = Strip(probe.pairs[Len(probe.pairs)].v.s)

\* a complete redistribute named under the directive key
C26_Witness ==
    /\ Probed({"coerce:named"})
    /\ probe.value.o[1] = P("directive", StrV("redistribute"))
    /\ ~HasKey(probe.value.o, "order")
    /\ probe.coerced.kind = "ok"
    /\ probe.coerced.d.order = S("redistribute")
    /\ probe.coerced.d.from_zone = S("alpha")
    /\ probe.coerced.d.to_zone = S("bravo")
    /\ probe.coerced.d.count = MaxSize
    /\ probe.coerced.d.reasoning = S("x")

\* C27: a parsed value that is no object, an object with none of the
\* recognized keys and an object without an order token all fail coercion, and
\* the normalizer returns the canonical hold with is_valid false and status
\* directive_shape_invalid for such an object.
C27_RejectedShapesGiveCanonicalHold ==
    /\ Probed({"coerce:value", "coerce:rejected"}) => probe.coerced.kind = "none"
    /\ Probed({"rejected", "no_token:json"}) =>
           probe.triple = CanonicalHoldAs("directive_shape_invalid")

\* an object with a zone and an infinite count but no order
C27_Witness ==
    /\ Probed({"rejected"})
    /\ probe.pairs = <<P("target_zone", StrV("alpha")), P("count", InfV("Infinity"))>>
    /\ probe.triple = CanonicalHoldAs("directive_shape_invalid")

----------------------------------------------------------------------------
(* Properties of the attempt loop as a whole *)

\* at most two invocations per attempt and at most four in all
InvocationsBounded ==
    /\ Len(calls) <= 4
    /\ \A a \in 1..2 : Cardinality({i \in 1..Len(calls) : calls[i].attempt = a}) <= 2
    /\ \A i \in 1..Len(calls) : calls[i].attempt \in 1..2

\* attempt k+1 is invoked only after attempt k failed or ended invalid
AttemptsInSequence ==
    /\ \A i, j \in 1..Len(calls) : i <= j => calls[i].attempt <= calls[j].attempt
    /\ \A i \in 1..Len(calls) :
           calls[i].attempt > 1 =>
               \E k \in 1..Len(history) :
                   /\ history[k].attempt = calls[i].attempt - 1
                   /\ (history[k].failed \/ ~history[k].valid)

\* the guards of Next's actions: Begin, InvokeSchema, InvokeNoSchema, Process
\* and Finish ask for their pc and nothing else
StepPossible == pc \in {"start", "schema_call", "no_schema_call", "process", "finish"}

\* C31: whatever each invocation returns or raises, a resolution makes at most
\* two invocations per attempt and four in all, invokes attempt k+1 only after
\* attempt k failed or ended invalid, and stops only once it has returned a
\* result (no step of the loop repeats, so it does stop).
C31_BoundedSequentialAndReturns ==
    /\ InvocationsBounded
    /\ AttemptsInSequence
    /\ (Returned \/ StepPossible)

----------------------------------------------------------------------------
(* Properties of two calls in flight on one analyzer *)

CallDone(p) == frames[p].pc \in {"returned", "raised"}

\* C32: two calls in flight on the same analyzer share no resolution state:
\* a step of one call, its rescue override included, never changes the model
\* or temperature of the other call's attempts, and two calls given the same
\* arguments and the same oracle answers make the same invocations and end
\* with the same result, however their invocations interleave.
C32_CallsShareNoResolutionState ==
    /\ [][\A p \in CallIds :
             (p \in DOMAIN frames /\ frames'[p] = frames[p]) =>
                 AttemptsOf(p)' = AttemptsOf(p)]_vars
    /\ [](\A p, q \in DOMAIN frames :
             ( /\ CallDone(p)
               /\ CallDone(q)
               /\ frames[p].args = frames[q].args
               /\ frames[p].answers = frames[q].answers ) =>
                 /\ frames[p].calls = frames[q].calls
                 /\ frames[p].pc = frames[q].pc
                 /\ frames[p].result = frames[q].result)

\* the first call's retry was overridden to the rescue model and invoked,
\* while the second call, with the same arguments, retried with the
\* configured thinking model; both have returned
C32_Witness ==
    /\ DOMAIN frames = CallIds
    /\ frames[1].args = frames[2].args
    /\ frames[1].pc = "returned"
    /\ frames[2].pc = "returned"
    /\ Len(frames[1].calls) = 2
    /\ Len(frames[2].calls) = 2
    /\ frames[1].calls[2].model = S("gemini-2.0-flash")
    /\ frames[2].calls[2].model = S("Gemini-2.5-Pro")
    /\ AttemptsOf(1)[2].model = S("gemini-2.0-flash")
    /\ AttemptsOf(2)[2].model = Str(TRUE, "Gemini-2.5-Pro")

----------------------------------------------------------------------------
(* Properties of the token broker *)

Callbacks == {i \in 1..Len(reqs) : reqs[i].kind = "callback"}

\* the callback i answers the login flow l: it carries the state l was given
Answers(i, l) == reqs[i].state = logins[l].state

\* C33: the signed state reads back as the app user it was signed for, with
\* and without BROKER_API_KEY, so a callback that stores a refresh token stores
\* it under the id that started the login.
C33_StateRoundTrips ==
    /\ \A l \in 1..Len(logins) :
           VerifyState(broker_key, logins[l].state) = Verified(logins[l].app_user_id)
    /\ \A i \in Callbacks : \A l \in 1..Len(logins) :
           (Answers(i, l) /\ reqs[i].wrote) =>
               reqs[i].app_user_id = logins[l].app_user_id

CookieExpired(i) == reqs[i].cookie.kind = "json" /\ reqs[i].cookie.exp < reqs[i].at

\* C34: a callback whose state cookie parses and has expired is answered 400
\* without token exchange and without Firestore write; with a missing or
\* unparsable cookie the state signature alone decides.
C34_ExpiredCookieEndsTheFlow ==
    \A i \in Callbacks :
        /\ CookieExpired(i) =>
               /\ reqs[i].pc = "done"
               /\ reqs[i].status = 400
               /\ ~reqs[i].contacted
               /\ ~reqs[i].wrote
        /\ ( /\ reqs[i].cookie.kind \in {"none", "garbage"}
             /\ reqs[i].code.kind # "none"
             /\ reqs[i].state # <<>> ) =>
               (reqs[i].status = 400 <=> ~VerifyState(broker_key, reqs[i].state).ok)

AccessRequests == {i \in 1..Len(reqs) : reqs[i].kind = "access"}

\* C35: an invalid_grant refusal whose storage update succeeds removes the
\* stored refresh token and is answered 401, and every access-token request
\* (one that carries the API key, when a key is required) received from then
\* on, until a callback stores a new refresh token, is answered 404 without
\* contacting the provider.
C35_InvalidGrantUnlinksUntilCallback ==
    \A i \in AccessRequests :
        /\ ( /\ reqs[i].pc = "done"
             /\ reqs[i].reply.error = "invalid_grant"
             /\ ~reqs[i].store_failed ) =>
               (reqs[i].status = 401 /\ reqs[i].wrote)
        /\ ( /\ reqs[i].after_invalidation
             /\ ~RequireApiKeyRaises(broker_key, reqs[i].key_ok) ) =>
               /\ reqs[i].pc = "done"
               /\ reqs[i].status = 404
               /\ ~reqs[i].contacted

AllAnswered == \A i \in 1..Len(reqs) : reqs[i].pc = "done"
TokensHeldFor(u) == {t \in whoop.valid : whoop.owner[t] = u}
LatestIssuedTo(u) ==
    LET mine == {t \in 1..Len(whoop.owner) : whoop.owner[t] = u} IN
    CHOOSE t \in mine : \A other \in mine : other <= t

\* C36: once concurrent access-token requests for one user have all been
\* answered (no callback among them, every document update carried out), the
\* user's document holds the refresh token the provider issued last whenever
\* the provider still accepts a token of that user.
C36_DocumentEndsWithLatestToken ==
    ( /\ AllAnswered
      /\ AccessRequests = 1..Len(reqs)
      /\ \A i \in AccessRequests : ~reqs[i].store_failed
      /\ TokensHeldFor(LinkedUser) # {} ) =>
        docs[LinkedUser].refresh_token = LatestIssuedTo(LinkedUser)

====
